---- MODULE Spec2Model ----
(***************************************************************************)
(* Node-graph execution engine of src/core/graph_runtime.py:               *)
(* StrategyGraph (add_node, add_connection, _would_create_cycle,           *)
(* get_topological_order) and GraphRuntime (execute, _prepare_node_inputs, *)
(* _get_terminal_nodes).                                                   *)
(***************************************************************************)
EXTENDS Integers, Sequences, FiniteSets, TLC

(***************************************************************************)
(* Bounds and input sets.                                                  *)
(***************************************************************************)
\* Longest connection list the model builds.
MaxConns == 3

\* Node ids the caller uses.
NodeIds == {"A", "B", "C"}

\* Declared input / output name lists of the Node objects the caller builds.
Shapes ==
    { [inputs |-> <<"p">>, outputs |-> <<"x", "y">>],
      [inputs |-> <<"p", "q">>, outputs |-> <<"x">>] }

\* Node objects handed to add_node.
NodeObjs ==
    { [node_id |-> n, inputs |-> s.inputs, outputs |-> s.outputs] :
        n \in NodeIds, s \in Shapes }

\* Positional indices a caller puts in a NodeConnection.
Indices == {0, 1}

\* NodeConnection objects handed to add_connection.
NodeConnection ==
    [from_node_id : NodeIds, from_output_index : Indices,
     to_node_id : NodeIds, to_input_index : Indices]

\* Connections of the graph-structure specification: index 0 only.
PlainConnection ==
    [from_node_id : NodeIds, from_output_index : {0},
     to_node_id : NodeIds, to_input_index : {0}]

\* Number of execute() calls the model makes on the runtime.
MaxExecs == 2

\* Largest reading of datetime.utcnow() an execute() call may see.
MaxClock == 1

\* Longest connection list of the graphs the runtime specifications build.
MaxRunConns == 2

\* Longest connection list of the graphs of the narrow runtime
\* specifications: two nodes run concurrently, any NodeStatus, readers.
MaxPairConns == 1

ExecIds == 1..MaxExecs

\* Node objects of the runtime specifications: one declaration per id.
RunNodeObjs ==
    { [node_id |-> "A", inputs |-> <<"p">>, outputs |-> <<"x", "y">>],
      [node_id |-> "B", inputs |-> <<"p", "q">>, outputs |-> <<"x">>],
      [node_id |-> "C", inputs |-> <<"p", "q">>, outputs |-> <<"x">>] }

\* A dict with no key.
EmptyMap == [k \in {} |-> 0]

\* d[k] = v
MapSet(d, k, v) == [x \in (DOMAIN d) \cup {k} |-> IF x = k THEN v ELSE d[x]]

\* d.update(other)
MapUpdate(d, other) ==
    [x \in (DOMAIN d) \cup (DOMAIN other) |->
        IF x \in DOMAIN other THEN other[x] ELSE d[x]]

\* Whether list[i] is an item of a Python list: a negative index counts
\* from the end, and an index beyond either end raises IndexError.
list_has(list, i) == -Len(list) <= i /\ i < Len(list)

\* list[i] for an index the list has.
list_item(list, i) == IF i >= 0 THEN list[i + 1] ELSE list[Len(list) + i + 1]

\* initial_inputs arguments of execute(): one entry, under a name that is
\* also a declared input name.
InitialInputs == { [k \in {"p"} |-> <<0, "caller", "p">>] }

\* The statuses a node's execute returns in the model.
ReturnedStatus == {"completed", "failed"}

\* The values of NodeStatus.
NodeStatus ==
    {"pending", "running", "completed", "failed", "skipped", "cancelled"}

VARIABLES
    nodes,        \* StrategyGraph.nodes: the dict, as its values in insertion order
    connections,  \* StrategyGraph.connections
    lastCall,     \* observer: the last graph API call and what it returned
                  \* or raised (kept by the graph-structure specification)
    execs,        \* the execute() calls: locals and the GraphExecutionResult
    history,      \* GraphRuntime._execution_history, as references to the calls
    heap,         \* the dict objects shared_state can refer to: the caller's
                  \* own dict and the dict each execute() call creates
    registry,     \* _NODE_REGISTRY
    registrations,\* observer: the register_node_type calls made, in order
    created,      \* observer: what the last create_node call returned or
                  \* raised
    validation,   \* observer: the last Node.validate_inputs call, the node's
                  \* declared inputs and what it returned
    bus_handlers, \* InMemoryEventBus._handlers: channel -> set of handlers
    lastop,       \* observer: per channel and handler, the last of subscribe
                  \* and unsubscribe that returned
    pubs          \* the publish() calls: locals, and the handler invocations
                  \* made

graphVars == <<nodes, connections>>
runVars == <<execs, history, heap>>
factoryVars == <<registry, registrations, created>>
nodeVars == <<validation>>
busVars == <<bus_handlers, lastop, pubs>>
vars == <<nodes, connections, lastCall, execs, history, heap,
          registry, registrations, created, validation,
          bus_handlers, lastop, pubs>>

(***************************************************************************)
(* Helpers over the node dict.                                             *)
(***************************************************************************)
Range(s) == { s[i] : i \in 1..Len(s) }

\* list(self.nodes): the keys in insertion order
NodeKeys(ns) == [i \in 1..Len(ns) |-> ns[i].node_id]

\* node_id in self.nodes
HasNode(ns, id) == \E i \in 1..Len(ns) : ns[i].node_id = id

\* self.nodes[node_id]
NodeAt(ns, id) == ns[CHOOSE i \in 1..Len(ns) : ns[i].node_id = id]

\* self.nodes[node.node_id] = node: a new key goes last, an existing key keeps
\* its place and gets the new value
\* Keeps the node already stored under the id: setdefault for assignment.
DictSet_setdefault(ns, node) ==
    IF HasNode(ns, node.node_id) THEN ns ELSE Append(ns, node)

DictSet(ns, node) ==
    IF HasNode(ns, node.node_id)
    THEN [i \in 1..Len(ns) |->
            IF ns[i].node_id = node.node_id THEN node ELSE ns[i]]
    ELSE Append(ns, node)

(***************************************************************************)
(* StrategyGraph._would_create_cycle                                       *)
(***************************************************************************)
\* adj = defaultdict(list); for conn in conns: adj[from].append(to)
RECURSIVE BuildAdj(_, _, _)
BuildAdj(conns, i, adj) ==
    IF i > Len(conns) THEN adj
    ELSE BuildAdj(conns, i + 1,
            [adj EXCEPT ![conns[i].from_node_id] =
                Append(@, conns[i].to_node_id)])

EmptyAdj == [n \in NodeIds |-> <<>>]

\* The nested has_cycle(node_id) with its loop over adj[node_id]; st carries
\* the closure's visited and rec_stack sets and the returned flag.
RECURSIVE has_cycle(_, _, _), has_cycle_loop(_, _, _, _, _)
has_cycle(adj, node_id, st) ==
    has_cycle_loop(adj, node_id, 1,
        [visited |-> st.visited \cup {node_id},
         rec_stack |-> st.rec_stack \cup {node_id},
         found |-> FALSE],
        adj[node_id])

\* Returns without rec_stack.remove(node_id).
RECURSIVE has_cycle_loop_no_unwind(_, _, _, _, _)
has_cycle_loop_no_unwind(adj, node_id, i, st, nbrs) ==
    IF i > Len(nbrs)
    THEN st
    ELSE IF nbrs[i] \notin st.visited
         THEN LET r == has_cycle(adj, nbrs[i], st)
              IN  IF r.found THEN r
                  ELSE has_cycle_loop_no_unwind(adj, node_id, i + 1, r, nbrs)
         ELSE IF nbrs[i] \in st.rec_stack
              THEN [st EXCEPT !.found = TRUE]
              ELSE has_cycle_loop_no_unwind(adj, node_id, i + 1, st, nbrs)

has_cycle_loop(adj, node_id, i, st, nbrs) ==
    IF i > Len(nbrs)
    THEN [st EXCEPT !.rec_stack = @ \ {node_id}]
    ELSE IF nbrs[i] \notin st.visited
         THEN LET r == has_cycle(adj, nbrs[i], st)
              IN  IF r.found THEN r
                  ELSE has_cycle_loop(adj, node_id, i + 1, r, nbrs)
         ELSE IF nbrs[i] \in st.rec_stack
              THEN [st EXCEPT !.found = TRUE]
              ELSE has_cycle_loop(adj, node_id, i + 1, st, nbrs)

\* for node_id in self.nodes: if node_id not in visited: if has_cycle(..)
RECURSIVE cycle_from_each(_, _, _, _)
cycle_from_each(adj, keys, i, st) ==
    IF i > Len(keys) THEN FALSE
    ELSE IF keys[i] \notin st.visited
         THEN LET r == has_cycle(adj, keys[i], st)
              IN  IF r.found THEN TRUE
                  ELSE cycle_from_each(adj, keys, i + 1, r)
         ELSE cycle_from_each(adj, keys, i + 1, st)

\* The adjacency list without the candidate edge: the check then looks at the
\* existing connections only.
would_create_cycle_no_candidate(ns, conns, new_connection) ==
    cycle_from_each(BuildAdj(conns, 1, EmptyAdj), NodeKeys(ns), 1,
        [visited |-> {}, rec_stack |-> {}, found |-> FALSE])

would_create_cycle(ns, conns, new_connection) ==
    cycle_from_each(
        BuildAdj(Append(conns, new_connection), 1, EmptyAdj),
        NodeKeys(ns), 1,
        [visited |-> {}, rec_stack |-> {}, found |-> FALSE])

(***************************************************************************)
(* StrategyGraph.get_topological_order (Kahn's algorithm)                  *)
(***************************************************************************)
\* in_degree = defaultdict(int), every node set to 0, then += 1 per connection
RECURSIVE BuildInDegree(_, _, _)
BuildInDegree(conns, i, deg) ==
    IF i > Len(conns) THEN deg
    ELSE BuildInDegree(conns, i + 1,
            [deg EXCEPT ![conns[i].to_node_id] = @ + 1])

\* Enqueues a neighbour on every decrement instead of only at zero.
RECURSIVE kahn_relax_eager(_, _, _, _)
kahn_relax_eager(nbrs, i, deg, queue) ==
    IF i > Len(nbrs) THEN [in_degree |-> deg, queue |-> queue]
    ELSE kahn_relax_eager(nbrs, i + 1,
            [deg EXCEPT ![nbrs[i]] = @ - 1], Append(queue, nbrs[i]))

\* for neighbor in adj[node_id]: in_degree -= 1; enqueue at zero
RECURSIVE kahn_relax(_, _, _, _)
kahn_relax(nbrs, i, deg, queue) ==
    IF i > Len(nbrs) THEN [in_degree |-> deg, queue |-> queue]
    ELSE LET d == [deg EXCEPT ![nbrs[i]] = @ - 1]
         IN  kahn_relax(nbrs, i + 1, d,
                IF d[nbrs[i]] = 0 THEN Append(queue, nbrs[i]) ELSE queue)

\* Takes the node from the right end of the queue: pop() for popleft().
RECURSIVE kahn_loop_lifo(_, _, _, _)
kahn_loop_lifo(adj, deg, queue, order) ==
    IF queue = <<>> THEN order
    ELSE LET node_id == queue[Len(queue)]
             r == kahn_relax(adj[node_id], 1, deg,
                             SubSeq(queue, 1, Len(queue) - 1))
         IN  kahn_loop_lifo(adj, r.in_degree, r.queue, Append(order, node_id))

\* while queue: popleft, append to order, relax the neighbours
RECURSIVE kahn_loop(_, _, _, _)
kahn_loop(adj, deg, queue, order) ==
    IF queue = <<>> THEN order
    ELSE LET r == kahn_relax(adj[Head(queue)], 1, deg, Tail(queue))
         IN  kahn_loop(adj, r.in_degree, r.queue, Append(order, Head(queue)))

\* deque([node_id for node_id in self.nodes if in_degree[node_id] == 0])
KahnSeed(keys, deg) == SelectSeq(keys, LAMBDA n : deg[n] = 0)

kahn_order(ns, conns) ==
    LET deg == BuildInDegree(conns, 1, [n \in NodeIds |-> 0])
    IN  kahn_loop(BuildAdj(conns, 1, EmptyAdj), deg,
                  KahnSeed(NodeKeys(ns), deg), <<>>)

\* The order, or ValueError("Graph contains a cycle") when its length differs
\* from the node count.
get_topological_order(ns, conns) ==
    LET order == kahn_order(ns, conns)
    IN  IF Len(order) # Len(ns)
        THEN [ok |-> FALSE, order |-> <<>>, error |-> "Graph contains a cycle"]
        ELSE [ok |-> TRUE, order |-> order, error |-> "none"]

(***************************************************************************)
(* Graph API calls                                                         *)
(***************************************************************************)
NoConn == [from_node_id |-> "none", from_output_index |-> 0,
           to_node_id |-> "none", to_input_index |-> 0]

Call(op, id, conn, outcome, order) ==
    [op |-> op, node_id |-> id, conn |-> conn, outcome |-> outcome,
     order |-> order]

\* StrategyGraph.add_node
AddNode(node) ==
    /\ nodes' = DictSet(nodes, node)
    /\ UNCHANGED <<connections, runVars, factoryVars, nodeVars, busVars>>

\* Checks the source node only.
add_connection_outcome_source_only(ns, conns, connection) ==
    IF ~HasNode(ns, connection.from_node_id) THEN "NodeNotFound"
    ELSE IF would_create_cycle(ns, conns, connection) THEN "CycleDetected"
    ELSE "ok"

\* What add_connection does: the ValueError it raises, or "ok".
\*   "NodeNotFound"  = ValueError("Source/Target node ... not found")
\*   "CycleDetected" = ValueError("Connection would create a cycle")
add_connection_outcome(ns, conns, connection) ==
    IF ~HasNode(ns, connection.from_node_id) THEN "NodeNotFound"
    ELSE IF ~HasNode(ns, connection.to_node_id) THEN "NodeNotFound"
    ELSE IF would_create_cycle(ns, conns, connection) THEN "CycleDetected"
    ELSE "ok"

\* Appends before validating, so a rejected call leaves its edge behind.
AddConnectionAppendFirst(connection) ==
    /\ connections' = Append(connections, connection)
    /\ UNCHANGED <<nodes, runVars, factoryVars, nodeVars, busVars>>

\* StrategyGraph.add_connection
AddConnection(connection) ==
    /\ connections' =
          IF add_connection_outcome(nodes, connections, connection) = "ok"
          THEN Append(connections, connection)
          ELSE connections
    /\ UNCHANGED <<nodes, runVars, factoryVars, nodeVars, busVars>>

\* Empties the connection list once the order is computed.
GetTopologicalOrderConsuming ==
    /\ LET r == get_topological_order(nodes, connections)
       IN  lastCall' = Call("get_topological_order", "none", NoConn,
                            IF r.ok THEN "ok" ELSE "CycleDetected", r.order)
    /\ connections' = <<>>
    /\ UNCHANGED <<nodes, runVars, factoryVars, nodeVars, busVars>>

\* A call of StrategyGraph.get_topological_order by the graph's owner
GetTopologicalOrder ==
    /\ LET r == get_topological_order(nodes, connections)
       IN  lastCall' = Call("get_topological_order", "none", NoConn,
                            IF r.ok THEN "ok" ELSE "CycleDetected", r.order)
    /\ UNCHANGED <<graphVars, runVars, factoryVars, nodeVars, busVars>>

(***************************************************************************)
(* Serialization                                                           *)
(***************************************************************************)
\* Node.to_dict: the id and, per declared input and output, a dict with its
\* name (the type, category and config entries carry nothing the model
\* keeps).
node_to_dict(node) ==
    [node_id |-> node.node_id,
     inputs |-> [i \in 1..Len(node.inputs) |-> [name |-> node.inputs[i]]],
     outputs |-> [i \in 1..Len(node.outputs) |-> [name |-> node.outputs[i]]]]

\* Writes each index under the other end's key.
connection_to_dict_crossed(c) ==
    [from |-> [node_id |-> c.from_node_id, output_index |-> c.to_input_index],
     to |-> [node_id |-> c.to_node_id, input_index |-> c.from_output_index]]

\* The dict StrategyGraph.to_dict builds for one connection
connection_to_dict(c) ==
    [from |-> [node_id |-> c.from_node_id, output_index |-> c.from_output_index],
     to |-> [node_id |-> c.to_node_id, input_index |-> c.to_input_index]]

\* StrategyGraph.to_dict: the nodes in dict order, the connections in list
\* order
graph_to_dict(ns, conns) ==
    [nodes |-> [i \in 1..Len(ns) |-> node_to_dict(ns[i])],
     connections |-> [i \in 1..Len(conns) |-> connection_to_dict(conns[i])]]

\* Reconstruction from the serialized structure: a Node and a
\* NodeConnection built from their dicts
node_from_dict(d) ==
    [node_id |-> d.node_id,
     inputs |-> [i \in 1..Len(d.inputs) |-> d.inputs[i].name],
     outputs |-> [i \in 1..Len(d.outputs) |-> d.outputs[i].name]]

connection_from_dict(d) ==
    [from_node_id |-> d.from.node_id, from_output_index |-> d.from.output_index,
     to_node_id |-> d.to.node_id, to_input_index |-> d.to.input_index]

\* add_node for each listed node, in listed order
RECURSIVE rebuild_nodes(_, _, _)
rebuild_nodes(ds, i, ns) ==
    IF i > Len(ds) THEN ns
    ELSE rebuild_nodes(ds, i + 1, DictSet(ns, node_from_dict(ds[i])))

\* add_connection for each listed connection, in listed order; rejected
\* counts the calls that raised
RECURSIVE rebuild_connections(_, _, _, _, _)
rebuild_connections(ds, i, ns, conns, rejected) ==
    IF i > Len(ds) THEN [nodes |-> ns, connections |-> conns, rejected |-> rejected]
    ELSE LET connection == connection_from_dict(ds[i])
         IN  IF add_connection_outcome(ns, conns, connection) = "ok"
             THEN rebuild_connections(ds, i + 1, ns, Append(conns, connection),
                                      rejected)
             ELSE rebuild_connections(ds, i + 1, ns, conns, rejected + 1)

rebuild(d) ==
    rebuild_connections(d.connections, 1, rebuild_nodes(d.nodes, 1, <<>>), <<>>, 0)

(***************************************************************************)
(* GraphRuntime.execute                                                    *)
(*                                                                         *)
(* One execute() call is a coroutine: it runs without interruption from    *)
(* its start to the first `await node.execute(context)`, then from each    *)
(* return of the awaited node to the next await or to its own return.      *)
(* Each such segment is one action.                                        *)
(***************************************************************************)
\* The locals of an execute() call and the fields of its GraphExecutionResult.
\*   pc       : notstarted, awaiting (suspended at the await), returned, or
\*              raised (an exception left execute())
\*   calls    : the node.execute(context) invocations made, with context.inputs
\*   ended    : how many of them have returned or raised
\*   assigned : the values assigned to result.status, in order
\*   caught   : whether the except clause ran
\*   shared_state_arg : the shared_state argument, "none" (None) or "caller"
\*              (a reference to the caller's dict)
\*   shared_state : the local after "Initialize shared state": "none",
\*              "caller", or "own" (a reference to the dict this call created)
\*   writes   : the nodes that wrote to the dict their context refers to
\*   execution_time_ms : <<>> for None, <<ms>> once set
\*   opportunities : the list of the result
NoExec ==
    [pc |-> "notstarted", execution_id |-> 0, initial_inputs |-> EmptyMap,
     shared_state_arg |-> "none", shared_state |-> "none", writes |-> {},
     execution_order |-> <<>>, pos |-> 0, node_outputs |-> EmptyMap,
     calls |-> <<>>, ended |-> 0, caught |-> FALSE,
     status |-> "none", assigned |-> <<>>, node_results |-> EmptyMap,
     final_outputs |-> EmptyMap, error_message |-> "none",
     failed_node_id |-> "none", completed_at |-> FALSE,
     execution_time_ms |-> <<>>, opportunities |-> <<>>]

\* result.status = st
SetStatus(x, st) == [x EXCEPT !.status = st, !.assigned = Append(@, st)]

\* Looks the output name up at to_input_index and the input name at
\* from_output_index: the two indices swapped.
RECURSIVE prepare_loop_swapped(_, _, _, _, _, _)
prepare_loop_swapped(ns, conns, i, node_id, node_outputs, inputs) ==
    IF i > Len(conns) THEN [raised |-> FALSE, inputs |-> inputs]
    ELSE LET conn == conns[i] IN
         IF conn.to_node_id # node_id
         THEN prepare_loop_swapped(ns, conns, i + 1, node_id, node_outputs, inputs)
         ELSE IF ~HasNode(ns, conn.from_node_id)
         THEN [raised |-> TRUE, inputs |-> inputs, error |-> "KeyError"]
         ELSE LET source_outputs ==
                      IF conn.from_node_id \in DOMAIN node_outputs
                      THEN node_outputs[conn.from_node_id] ELSE EmptyMap
                  source_node == NodeAt(ns, conn.from_node_id)
                  target_node == NodeAt(ns, node_id)
                  output_name == source_node.outputs[conn.to_input_index + 1]
                  input_name == target_node.inputs[conn.from_output_index + 1]
              IN  prepare_loop_swapped(ns, conns, i + 1, node_id, node_outputs,
                    IF /\ conn.to_input_index < Len(source_node.outputs)
                       /\ output_name \in DOMAIN source_outputs
                       /\ conn.from_output_index < Len(target_node.inputs)
                    THEN MapSet(inputs, input_name, source_outputs[output_name])
                    ELSE inputs)

\* Reads source_outputs[output_name] without testing for the name: a missing
\* upstream output raises KeyError.
RECURSIVE prepare_loop_strict(_, _, _, _, _, _)
prepare_loop_strict(ns, conns, i, node_id, node_outputs, inputs) ==
    IF i > Len(conns) THEN [raised |-> FALSE, inputs |-> inputs]
    ELSE LET conn == conns[i] IN
         IF conn.to_node_id # node_id
         THEN prepare_loop_strict(ns, conns, i + 1, node_id, node_outputs, inputs)
         ELSE IF ~HasNode(ns, conn.from_node_id)
         THEN [raised |-> TRUE, inputs |-> inputs, error |-> "KeyError"]
         ELSE LET source_outputs ==
                      IF conn.from_node_id \in DOMAIN node_outputs
                      THEN node_outputs[conn.from_node_id] ELSE EmptyMap
                  source_node == NodeAt(ns, conn.from_node_id)
                  target_node == NodeAt(ns, node_id)
                  output_name == source_node.outputs[conn.from_output_index + 1]
                  input_name == target_node.inputs[conn.to_input_index + 1]
              IN  IF /\ conn.from_output_index < Len(source_node.outputs)
                     /\ output_name \notin DOMAIN source_outputs
                  THEN [raised |-> TRUE, inputs |-> inputs, error |-> "KeyError"]
                  ELSE prepare_loop_strict(ns, conns, i + 1, node_id, node_outputs,
                         IF /\ conn.from_output_index < Len(source_node.outputs)
                            /\ conn.to_input_index < Len(target_node.inputs)
                         THEN MapSet(inputs, input_name, source_outputs[output_name])
                         ELSE inputs)

\* Keeps the value an earlier connection bound: setdefault for assignment.
RECURSIVE prepare_loop_first_wins(_, _, _, _, _, _)
prepare_loop_first_wins(ns, conns, i, node_id, node_outputs, inputs) ==
    IF i > Len(conns) THEN [raised |-> FALSE, inputs |-> inputs]
    ELSE LET conn == conns[i] IN
         IF conn.to_node_id # node_id
         THEN prepare_loop_first_wins(ns, conns, i + 1, node_id,
                                      node_outputs, inputs)
         ELSE IF ~HasNode(ns, conn.from_node_id)
         THEN [raised |-> TRUE, inputs |-> inputs, error |-> "KeyError"]
         ELSE LET source_outputs ==
                      IF conn.from_node_id \in DOMAIN node_outputs
                      THEN node_outputs[conn.from_node_id] ELSE EmptyMap
                  source_node == NodeAt(ns, conn.from_node_id)
                  target_node == NodeAt(ns, node_id)
                  output_name == source_node.outputs[conn.from_output_index + 1]
                  input_name == target_node.inputs[conn.to_input_index + 1]
              IN  prepare_loop_first_wins(ns, conns, i + 1, node_id,
                    node_outputs,
                    IF /\ conn.from_output_index < Len(source_node.outputs)
                       /\ output_name \in DOMAIN source_outputs
                       /\ conn.to_input_index < Len(target_node.inputs)
                       /\ input_name \notin DOMAIN inputs
                    THEN MapSet(inputs, input_name, source_outputs[output_name])
                    ELSE inputs)

\* GraphRuntime._prepare_node_inputs; raised = KeyError on
\* self.graph.nodes[..] or IndexError on a declared list
RECURSIVE prepare_loop(_, _, _, _, _, _)
prepare_loop(ns, conns, i, node_id, node_outputs, inputs) ==
    IF i > Len(conns) THEN [raised |-> FALSE, inputs |-> inputs]
    ELSE LET conn == conns[i] IN
         IF conn.to_node_id # node_id
         THEN prepare_loop(ns, conns, i + 1, node_id, node_outputs, inputs)
         ELSE IF ~HasNode(ns, conn.from_node_id)
         THEN [raised |-> TRUE, inputs |-> inputs, error |-> "KeyError"]
         ELSE LET source_outputs ==
                      IF conn.from_node_id \in DOMAIN node_outputs
                      THEN node_outputs[conn.from_node_id] ELSE EmptyMap
                  source_node == NodeAt(ns, conn.from_node_id)
                  target_node == NodeAt(ns, node_id)
                  output_name ==
                      list_item(source_node.outputs, conn.from_output_index)
                  input_name ==
                      list_item(target_node.inputs, conn.to_input_index)
              IN  IF conn.from_output_index >= Len(source_node.outputs)
                  THEN prepare_loop(ns, conns, i + 1, node_id, node_outputs,
                                    inputs)
                  ELSE IF ~list_has(source_node.outputs, conn.from_output_index)
                  THEN [raised |-> TRUE, inputs |-> inputs,
                        error |-> "IndexError"]
                  ELSE IF \/ output_name \notin DOMAIN source_outputs
                          \/ conn.to_input_index >= Len(target_node.inputs)
                  THEN prepare_loop(ns, conns, i + 1, node_id, node_outputs,
                                    inputs)
                  ELSE IF ~list_has(target_node.inputs, conn.to_input_index)
                  THEN [raised |-> TRUE, inputs |-> inputs,
                        error |-> "IndexError"]
                  ELSE prepare_loop(ns, conns, i + 1, node_id, node_outputs,
                          MapSet(inputs, input_name,
                                 source_outputs[output_name]))

\* Merges initial_inputs into the inputs of every node.
prepare_node_inputs_always_merge(ns, conns, node_id, node_outputs, initial_inputs) ==
    LET r == prepare_loop(ns, conns, 1, node_id, node_outputs, EmptyMap)
    IN  IF r.raised THEN r
        ELSE [raised |-> FALSE, inputs |-> MapUpdate(r.inputs, initial_inputs)]

\* _prepare_node_inputs with its closing "Add initial inputs for source nodes"
prepare_node_inputs(ns, conns, node_id, node_outputs, initial_inputs) ==
    LET r == prepare_loop(ns, conns, 1, node_id, node_outputs, EmptyMap)
    IN  IF r.raised THEN r
        ELSE IF ~(\E i \in 1..Len(conns) : conns[i].to_node_id = node_id)
             THEN [raised |-> FALSE, inputs |-> MapUpdate(r.inputs, initial_inputs)]
             ELSE r

\* Every node counted as terminal.
get_terminal_nodes_all(ns, conns) == NodeKeys(ns)

\* GraphRuntime._get_terminal_nodes
get_terminal_nodes(ns, conns) ==
    LET nodes_with_outgoing == { c.from_node_id : c \in Range(conns) }
    IN  SelectSeq(NodeKeys(ns), LAMBDA n : n \notin nodes_with_outgoing)

\* Marks the result completed without looking at its status.
after_loop_unguarded(x, ns, conns) ==
    [SetStatus(x, "completed") EXCEPT
        !.final_outputs =
            [n \in Range(get_terminal_nodes(ns, conns)) \cap DOMAIN x.node_outputs |->
                x.node_outputs[n]]]

\* "Mark as completed if not failed" and the collection of final outputs
after_loop(x, ns, conns) ==
    IF x.status # "failed"
    THEN LET terminal == Range(get_terminal_nodes(ns, conns))
         IN  [SetStatus(x, "completed") EXCEPT
                !.final_outputs =
                    [n \in terminal \cap DOMAIN x.node_outputs |->
                        x.node_outputs[n]]]
    ELSE x

\* except Exception as e
\* Names the node of the current position as the failed node.
on_exception_blaming(x, msg) ==
    [SetStatus(x, "failed") EXCEPT
        !.error_message = msg, !.caught = TRUE,
        !.failed_node_id =
            IF x.pos > 0 THEN x.execution_order[x.pos] ELSE "unknown"]

on_exception(x, msg) ==
    [SetStatus(x, "failed") EXCEPT !.error_message = msg, !.caught = TRUE]

\* The milliseconds between the two clock readings of an execution,
\* started_at and completed_at.
ElapsedMs == 1

\* finally: stamp the completion time; the caller of this operator appends
\* the result to the history; then return result
finally_return(x) ==
    [x EXCEPT !.completed_at = TRUE, !.execution_time_ms = <<ElapsedMs>>,
              !.pc = "returned"]

\* Walks the order from its end.
loop_node_reversed(order, pos) == order[Len(order) - pos + 1]

\* for node_id in execution_order: the node of the iteration at position pos
loop_node(order, pos) == order[pos]

\* The loop from the iteration at position pos up to its await, or, past the
\* last position, the rest of execute().
\* Fails the execution, without the call, when a declared input is absent
\* from the prepared inputs.
run_from_validating(x, ns, conns, pos) ==
    IF pos > Len(x.execution_order)
    THEN finally_return(after_loop(x, ns, conns))
    ELSE LET node_id == loop_node(x.execution_order, pos) IN
         IF ~HasNode(ns, node_id)
         THEN finally_return(on_exception(x, "KeyError"))
         ELSE LET r == prepare_node_inputs(ns, conns, node_id,
                            x.node_outputs, x.initial_inputs)
              IN  IF r.raised
                  THEN finally_return(on_exception(x, r.error))
                  ELSE IF \E name \in Range(NodeAt(ns, node_id).inputs) :
                             name \notin DOMAIN r.inputs
                  THEN finally_return(
                          [SetStatus(x, "failed") EXCEPT
                              !.failed_node_id = node_id,
                              !.error_message = "Missing required input"])
                  ELSE [x EXCEPT !.pc = "awaiting", !.pos = pos,
                          !.calls = Append(@, [node_id |-> node_id,
                                               inputs |-> r.inputs,
                                               shared_state |-> x.shared_state])]

run_from(x, ns, conns, pos) ==
    IF pos > Len(x.execution_order)
    THEN finally_return(after_loop(x, ns, conns))
    ELSE LET node_id == loop_node(x.execution_order, pos) IN
         IF ~HasNode(ns, node_id)
         THEN finally_return(on_exception(x, "KeyError"))
         ELSE LET r == prepare_node_inputs(ns, conns, node_id,
                            x.node_outputs, x.initial_inputs)
              IN  IF r.raised
                  THEN finally_return(on_exception(x, r.error))
                  ELSE [x EXCEPT !.pc = "awaiting", !.pos = pos,
                          !.calls = Append(@, [node_id |-> node_id,
                                               inputs |-> r.inputs,
                                               shared_state |-> x.shared_state])]

\* Always starts from a dict of its own, whatever the caller passed.
initialize_shared_state_own(shared_state) == "own"

\* if shared_state is None: shared_state = {}
initialize_shared_state(shared_state) ==
    IF shared_state = "none" THEN "own" ELSE shared_state

\* Computes the order before the try block: its ValueError leaves execute().
execute_begin_order_before_try(ns, conns, now, initial_inputs, shared_state) ==
    LET x == [SetStatus(NoExec, "running") EXCEPT
                !.execution_id = now, !.initial_inputs = initial_inputs,
                !.shared_state_arg = shared_state, !.shared_state = shared_state]
        r == get_topological_order(ns, conns)
    IN  IF ~r.ok
        THEN [x EXCEPT !.pc = "raised"]
        ELSE run_from([x EXCEPT !.execution_order = r.order,
                                !.shared_state = initialize_shared_state(@)],
                      ns, conns, 1)

\* execute() from its first line to the first await
execute_begin(ns, conns, now, initial_inputs, shared_state) ==
    LET x == [SetStatus(NoExec, "running") EXCEPT
                !.execution_id = now, !.initial_inputs = initial_inputs,
                !.shared_state_arg = shared_state, !.shared_state = shared_state]
        r == get_topological_order(ns, conns)
    IN  IF ~r.ok
        THEN finally_return(on_exception(x, r.error))
        ELSE run_from([x EXCEPT !.execution_order = r.order,
                                !.shared_state = initialize_shared_state(@)],
                      ns, conns, 1)

\* Records the failure and goes on to the next node: no break.
on_node_result_no_break(x, ns, conns, node_result) ==
    LET node_id == loop_node(x.execution_order, x.pos)
        x1 == [x EXCEPT !.ended = @ + 1,
                        !.node_results = MapSet(@, node_id, node_result)]
    IN  IF node_result.status = "failed"
        THEN run_from([SetStatus(x1, "failed") EXCEPT
                            !.failed_node_id = node_id,
                            !.error_message = node_result.error_message],
                      ns, conns, x.pos + 1)
        ELSE run_from([x1 EXCEPT !.node_outputs =
                            MapSet(@, node_id, node_result.outputs)],
                      ns, conns, x.pos + 1)

\* execute() from the return of the awaited node to the next await
\* Stops the walk on every status other than COMPLETED.
on_node_result_completed_only(x, ns, conns, node_result) ==
    LET node_id == loop_node(x.execution_order, x.pos)
        x1 == [x EXCEPT !.ended = @ + 1,
                        !.node_results = MapSet(@, node_id, node_result)]
    IN  IF node_result.status # "completed"
        THEN finally_return(after_loop(
                [SetStatus(x1, "failed") EXCEPT
                    !.failed_node_id = node_id,
                    !.error_message = node_result.error_message],
                ns, conns))
        ELSE run_from([x1 EXCEPT !.node_outputs =
                            MapSet(@, node_id, node_result.outputs)],
                      ns, conns, x.pos + 1)

\* Records every result under the first node id of the order.
on_node_result_first_key(x, ns, conns, node_result) ==
    LET node_id == loop_node(x.execution_order, x.pos)
        x1 == [x EXCEPT !.ended = @ + 1,
                        !.node_results =
                            MapSet(@, x.execution_order[1], node_result)]
    IN  IF node_result.status = "failed"
        THEN finally_return(after_loop(
                [SetStatus(x1, "failed") EXCEPT
                    !.failed_node_id = node_id,
                    !.error_message = node_result.error_message],
                ns, conns))
        ELSE run_from([x1 EXCEPT !.node_outputs =
                            MapSet(@, node_id, node_result.outputs)],
                      ns, conns, x.pos + 1)

\* Invokes a node that returned FAILED a second time before giving up.
on_node_result_retry_once(x, ns, conns, node_result) ==
    LET node_id == loop_node(x.execution_order, x.pos)
        x1 == [x EXCEPT !.ended = @ + 1,
                        !.node_results = MapSet(@, node_id, node_result)]
    IN  IF node_result.status = "failed"
        THEN IF Len(x.calls) = x.pos
             THEN run_from(x1, ns, conns, x.pos)
             ELSE finally_return(after_loop(
                    [SetStatus(x1, "failed") EXCEPT
                        !.failed_node_id = node_id,
                        !.error_message = node_result.error_message],
                    ns, conns))
        ELSE run_from([x1 EXCEPT !.node_outputs =
                            MapSet(@, node_id, node_result.outputs)],
                      ns, conns, x.pos + 1)

\* Attaches the outputs a node returned to the opportunities of the result.
on_node_result_attaching(x, ns, conns, node_result) ==
    LET node_id == loop_node(x.execution_order, x.pos)
        x1 == [x EXCEPT !.ended = @ + 1,
                        !.node_results = MapSet(@, node_id, node_result),
                        !.opportunities =
                            IF node_result.outputs = EmptyMap THEN @
                            ELSE Append(@, node_result.outputs)]
    IN  IF node_result.status = "failed"
        THEN finally_return(after_loop(
                [SetStatus(x1, "failed") EXCEPT
                    !.failed_node_id = node_id,
                    !.error_message = node_result.error_message],
                ns, conns))
        ELSE run_from([x1 EXCEPT !.node_outputs =
                            MapSet(@, node_id, node_result.outputs)],
                      ns, conns, x.pos + 1)

on_node_result(x, ns, conns, node_result) ==
    LET node_id == loop_node(x.execution_order, x.pos)
        x1 == [x EXCEPT !.ended = @ + 1,
                        !.node_results = MapSet(@, node_id, node_result)]
    IN  IF node_result.status = "failed"
        THEN finally_return(after_loop(
                [SetStatus(x1, "failed") EXCEPT
                    !.failed_node_id = node_id,
                    !.error_message = node_result.error_message],
                ns, conns))
        ELSE run_from([x1 EXCEPT !.node_outputs =
                            MapSet(@, node_id, node_result.outputs)],
                      ns, conns, x.pos + 1)

\* The except clause does not match: the exception leaves execute(), the
\* finally clause having run.
on_node_raise_uncaught(x, msg) ==
    [x EXCEPT !.ended = @ + 1, !.completed_at = TRUE, !.pc = "raised"]

\* execute() when the awaited node raises an Exception
on_node_raise(x, msg) ==
    finally_return(on_exception([x EXCEPT !.ended = @ + 1], msg))

\* Appends at the end of the try block: skipped when the except clause ran.
HistoryAfter_in_try(e, x) ==
    IF x.pc = "returned" /\ ~x.caught THEN Append(history, e) ELSE history

\* self._execution_history.append(result), when the call has ended.  The
\* list holds references to the result objects: entry e is the result
\* execs[e] of call e.
HistoryAfter(e, x) == IF x.pc = "returned" THEN Append(history, e) ELSE history

\* Greatest common divisor of two naturals, not both needed positive.
RECURSIVE Gcd(_, _)
Gcd(a, b) == IF b = 0 THEN a ELSE Gcd(b, a % b)

\* a / b on numbers, b # 0: the quotient as a fraction <<numerator,
\* denominator>> in lowest terms (the float 0.0 is <<0, 1>>).
TrueDiv(a, b) == <<a \div Gcd(a, b), b \div Gcd(a, b)>>

\* Counts every entry, whatever its status.
successful_count_any_status(hist, results) == Len(hist)

\* sum(1 for r in self._execution_history if r.status == COMPLETED)
successful_count(hist, results) ==
    Cardinality({ i \in 1..Len(hist) : results[hist[i]].status = "completed" })

\* r.execution_time_ms or 0
time_or_zero(r) ==
    IF r.execution_time_ms = <<>> THEN 0 ELSE r.execution_time_ms[1]

\* sum(r.execution_time_ms or 0 for r in self._execution_history)
RECURSIVE execution_time_sum(_, _)
execution_time_sum(hist, results) ==
    IF hist = <<>> THEN 0
    ELSE time_or_zero(results[Head(hist)])
            + execution_time_sum(Tail(hist), results)

\* sum(len(r.opportunities) for r in self._execution_history)
RECURSIVE opportunities_sum(_, _)
opportunities_sum(hist, results) ==
    IF hist = <<>> THEN 0
    ELSE Len(results[Head(hist)].opportunities)
            + opportunities_sum(Tail(hist), results)

\* GraphRuntime.get_statistics over the history list hist of references into
\* results.
get_statistics(hist, results) ==
    IF Len(hist) = 0
    THEN [total_executions |-> 0, success_rate |-> <<0, 1>>,
          avg_execution_time_ms |-> <<0, 1>>]
    ELSE LET total == Len(hist)
             successful == successful_count(hist, results)
         IN  [total_executions |-> total,
              successful_executions |-> successful,
              success_rate |-> TrueDiv(successful, total),
              avg_execution_time_ms |->
                  TrueDiv(execution_time_sum(hist, results), total),
              total_opportunities |-> opportunities_sum(hist, results)]

\* The value the node of execution e puts under an output name.
Val(e, node_id, name) == <<e, node_id, name>>

\* What a node's execute may return: a non-FAILED status with all of its
\* declared outputs or with none, or FAILED with an error message.
NodeResults(e, node, statuses) ==
    { [status |-> st, outputs |-> [n \in names |-> Val(e, node.node_id, n)],
       error_message |-> "none"] :
        st \in statuses \ {"failed"}, names \in {{}, Range(node.outputs)} }
    \cup
    { [status |-> st, outputs |-> EmptyMap, error_message |-> "node failed"] :
        st \in statuses \cap {"failed"} }

\* A call of GraphRuntime.execute(initial_inputs, shared_state) that reads
\* the clock at now
Execute(e, now, initial_inputs, shared_state) ==
    /\ execs[e].pc = "notstarted"
    /\ \A d \in ExecIds : d < e => execs[d].pc # "notstarted"
    /\ LET x == execute_begin(nodes, connections, now, initial_inputs,
                              shared_state)
       IN  /\ execs' = [execs EXCEPT ![e] = x]
           /\ history' = HistoryAfter(e, x)
    /\ UNCHANGED <<graphVars, lastCall, heap, factoryVars, nodeVars, busVars>>

\* execute(initial_inputs): shared_state defaults to None
ExecuteStart(e, now, initial_inputs) ==
    Execute(e, now, initial_inputs, "none")

\* execute(initial_inputs, shared_state) with a dict of the caller's
ExecuteShared(e, now, initial_inputs) ==
    Execute(e, now, initial_inputs, "caller")

\* The key under which a node writes into context.shared_state.
StateKey(node_id) == node_id

\* The dict a reference held by call e denotes.
Deref(e, ref) == IF ref = "caller" THEN heap.caller ELSE heap.own[e]

\* The node awaited by execution e runs
\* context.shared_state[key] = value, once
NodeWrites(e) ==
    /\ execs[e].pc = "awaiting"
    /\ LET call == execs[e].calls[Len(execs[e].calls)]
           key == StateKey(call.node_id)
           value == Val(e, call.node_id, "state")
       IN  /\ call.node_id \notin execs[e].writes
           /\ execs' = [execs EXCEPT ![e].writes = @ \cup {call.node_id}]
           /\ heap' = IF call.shared_state = "caller"
                      THEN [heap EXCEPT !.caller = MapSet(@, key, value)]
                      ELSE [heap EXCEPT !.own[e] = MapSet(@, key, value)]
    /\ UNCHANGED <<graphVars, lastCall, history, factoryVars, nodeVars, busVars>>

\* The node awaited by execution e returns node_result
\* The awaiting task is cancelled: CancelledError is raised at the await.
\* Where it derives from BaseException (Python 3.8 and later) the except
\* clause lets it through, the finally clause runs and the error leaves
\* execute(); where it derives from Exception it is handled as a node raise.
on_cancel(x, is_exception) ==
    IF is_exception
    THEN on_node_raise(x, "cancelled")
    ELSE [x EXCEPT !.ended = @ + 1, !.completed_at = TRUE,
                   !.execution_time_ms = <<ElapsedMs>>, !.pc = "cancelled"]

Cancel(e, is_exception) ==
    /\ execs[e].pc = "awaiting"
    /\ execs' = [execs EXCEPT ![e] = on_cancel(execs[e], is_exception)]
    /\ history' = Append(history, e)
    /\ UNCHANGED <<graphVars, lastCall, heap, factoryVars, nodeVars, busVars>>

\* Keeps one node_outputs map for the whole runtime: the walk goes on with
\* the outputs every execution has recorded so far.
NodeReturnsSharedOutputs(e, node_result) ==
    /\ execs[e].pc = "awaiting"
    /\ \E other \in ExecIds :
          LET merged == MapUpdate(execs[e].node_outputs,
                                  execs[other].node_outputs)
              x == on_node_result([execs[e] EXCEPT !.node_outputs = merged],
                                  nodes, connections, node_result)
          IN  /\ execs' = [execs EXCEPT ![e] = x]
              /\ history' = HistoryAfter(e, x)
    /\ UNCHANGED <<graphVars, lastCall, heap, factoryVars, nodeVars, busVars>>

NodeReturns(e, node_result) ==
    /\ execs[e].pc = "awaiting"
    /\ LET x == on_node_result(execs[e], nodes, connections, node_result)
       IN  /\ execs' = [execs EXCEPT ![e] = x]
           /\ history' = HistoryAfter(e, x)
    /\ UNCHANGED <<graphVars, lastCall, heap, factoryVars, nodeVars, busVars>>

\* The node awaited by execution e raises an Exception
NodeRaises(e) ==
    /\ execs[e].pc = "awaiting"
    /\ LET x == on_node_raise(execs[e], "node raised")
       IN  /\ execs' = [execs EXCEPT ![e] = x]
           /\ history' = HistoryAfter(e, x)
    /\ UNCHANGED <<graphVars, lastCall, heap, factoryVars, nodeVars, busVars>>

\* The node execution e is awaiting
AwaitedNode(e) ==
    NodeAt(nodes, loop_node(execs[e].execution_order, execs[e].pos))

(***************************************************************************)
(* Node.validate_inputs                                                    *)
(***************************************************************************)
\* Longest inputs list of the Node objects validate_inputs is called on.
MaxInputs == 2

\* NodeInput objects: name, required and default_value ("None" is None).
NodeInput ==
    [name : {"p", "q"}, required : BOOLEAN, default_value : {"None", "d"}]

\* The inputs lists of the nodes: any NodeInput objects, in any order.
InputLists == UNION { [1..n -> NodeInput] : n \in 0..MaxInputs }

\* The dicts handed to validate_inputs; a key may be present with value None.
SuppliedInputs ==
    UNION { [keys -> {"None", "v"}] : keys \in SUBSET {"p", "q"} }

\* Takes a required input for missing whether or not it has a default.
RECURSIVE validate_loop_ignoring_default(_, _, _)
validate_loop_ignoring_default(input_specs, i, inputs) ==
    IF i > Len(input_specs) THEN [ok |-> TRUE, error |-> <<"None">>]
    ELSE LET input_spec == input_specs[i] IN
         IF input_spec.required /\ input_spec.name \notin DOMAIN inputs
         THEN [ok |-> FALSE,
               error |-> <<"Missing required input: ", input_spec.name>>]
         ELSE validate_loop_ignoring_default(input_specs, i + 1, inputs)

\* for input_spec in self.inputs, from the i-th on, and the final return
RECURSIVE validate_loop(_, _, _)
validate_loop(input_specs, i, inputs) ==
    IF i > Len(input_specs) THEN [ok |-> TRUE, error |-> <<"None">>]
    ELSE LET input_spec == input_specs[i] IN
         IF /\ input_spec.required
            /\ input_spec.name \notin DOMAIN inputs
            /\ input_spec.default_value = "None"
         THEN [ok |-> FALSE,
               error |-> <<"Missing required input: ", input_spec.name>>]
         ELSE validate_loop(input_specs, i + 1, inputs)

\* Node.validate_inputs of a node whose inputs list is input_specs
validate_inputs(input_specs, inputs) == validate_loop(input_specs, 1, inputs)

\* The NodeInput list of a node that declares its inputs by name only:
\* required and default_value keep the dataclass defaults.
declared_inputs(node) ==
    [i \in 1..Len(node.inputs) |->
        [name |-> node.inputs[i], required |-> TRUE, default_value |-> "None"]]

\* No validate_inputs call made yet.
NoValidation ==
    [called |-> FALSE, input_specs |-> <<>>, inputs |-> EmptyMap,
     result |-> [ok |-> TRUE, error |-> <<"None">>]]

\* node.validate_inputs(inputs) on a node declaring input_specs
ValidateInputs(input_specs, inputs) ==
    /\ validation' = [called |-> TRUE, input_specs |-> input_specs,
                      inputs |-> inputs,
                      result |-> validate_inputs(input_specs, inputs)]
    /\ UNCHANGED <<graphVars, runVars, lastCall, factoryVars, busVars>>

\* One call per behaviour: validate_inputs reads and writes no state, so a
\* second call meets nothing the first did not.
NextValidate ==
    /\ ~validation.called
    /\ \E input_specs \in InputLists, inputs \in SuppliedInputs :
          ValidateInputs(input_specs, inputs)

(***************************************************************************)
(* InMemoryEventBus (src/src/infrastructure/events/memory.py)              *)
(*                                                                         *)
(* subscribe and unsubscribe hold the lock over a block without an await   *)
(* and nothing else holds it across one, so each runs without              *)
(* interruption.  publish is a coroutine: it runs from its start to the    *)
(* first `await handler(event)`, then from each return or raise of the     *)
(* awaited handler to the next await or to its own return.                 *)
(***************************************************************************)
Channels == {"c1", "c2"}

Handlers == {"h1", "h2"}

Events == {"e1", "e2"}

MaxPubs == 1

PubIds == 1..MaxPubs

\* The locals of a publish() call.
\*   pc       : notstarted, awaiting (suspended in a handler), returned, or
\*              raised (an exception left publish())
\*   handlers : the part of the copied set the for loop has not reached
\*   current  : the handler being awaited
\*   invoked  : observer, the handler(event) calls made, in order
\*   raised   : observer, the handlers that raised
\*   expected, barred : observers, the handlers whose last call on the
\*              channel, when publish() was called, was subscribe / unsubscribe
NoPub ==
    [pc |-> "notstarted", channel |-> "none", event |-> "none",
     handlers |-> {}, current |-> "none", invoked |-> <<>>, raised |-> {},
     expected |-> {}, barred |-> {}]

\* self._handlers.get(channel, set())
handlers_get(hs, channel) ==
    IF channel \in DOMAIN hs THEN hs[channel] ELSE {}

\* InMemoryEventBus.subscribe
subscribe(hs, channel, handler) ==
    MapSet(hs, channel, handlers_get(hs, channel) \cup {handler})

\* Deletes the channel after the discard, whether or not it is empty.
unsubscribe_delete_channel(hs, channel, handler) ==
    IF channel \notin DOMAIN hs THEN hs
    ELSE [c \in DOMAIN hs \ {channel} |-> hs[c]]

\* InMemoryEventBus.unsubscribe
unsubscribe(hs, channel, handler) ==
    IF channel \notin DOMAIN hs THEN hs
    ELSE LET rest == hs[channel] \ {handler}
         IN  IF rest = {}
             THEN [c \in DOMAIN hs \ {channel} |-> hs[c]]
             ELSE [hs EXCEPT ![channel] = rest]

\* Copies the handlers of every channel.
publish_copy_every_channel(hs, channel) ==
    UNION { hs[c] : c \in DOMAIN hs }

\* handlers = self._handlers.get(channel, set()).copy()
publish_copy(hs, channel) == handlers_get(hs, channel)

\* The for loop reaching handler: await handler(event)
publish_invoke(x, handler) ==
    [x EXCEPT !.pc = "awaiting", !.current = handler,
              !.handlers = @ \ {handler},
              !.invoked = Append(@, [handler |-> handler, event |-> x.event])]

\* The for loop exhausted: publish() returns
publish_return(x) == [x EXCEPT !.pc = "returned", !.current = "none"]

\* Lets the handler's exception out of publish().
on_handler_raise_uncaught(x) ==
    [x EXCEPT !.raised = @ \cup {x.current}, !.pc = "raised",
              !.current = "none"]

\* except Exception as e: print(...)
on_handler_raise(x) == [x EXCEPT !.raised = @ \cup {x.current}]

\* publish() goes on from x: to its end if an exception left it or no
\* handler remains, else to the await of some remaining handler (a set is
\* iterated in no particular order).
PublishGoesOn(p, x) ==
    IF x.pc = "raised"
    THEN pubs' = [pubs EXCEPT ![p] = x]
    ELSE IF x.handlers = {}
    THEN pubs' = [pubs EXCEPT ![p] = publish_return(x)]
    ELSE \E handler \in x.handlers :
            pubs' = [pubs EXCEPT ![p] = publish_invoke(x, handler)]

\* await bus.subscribe(channel, handler)
Subscribe(channel, handler) ==
    /\ bus_handlers' = subscribe(bus_handlers, channel, handler)
    /\ lastop' = [lastop EXCEPT ![channel][handler] = "subscribe"]
    /\ UNCHANGED <<graphVars, runVars, lastCall, factoryVars, nodeVars, pubs>>

\* await bus.unsubscribe(channel, handler)
Unsubscribe(channel, handler) ==
    /\ bus_handlers' = unsubscribe(bus_handlers, channel, handler)
    /\ lastop' = [lastop EXCEPT ![channel][handler] = "unsubscribe"]
    /\ UNCHANGED <<graphVars, runVars, lastCall, factoryVars, nodeVars, pubs>>

\* A call of bus.publish(channel, event), up to its first await
Publish(p, channel, event) ==
    /\ pubs[p].pc = "notstarted"
    /\ \A o \in PubIds : o < p => pubs[o].pc # "notstarted"
    /\ PublishGoesOn(p,
          [NoPub EXCEPT
              !.channel = channel, !.event = event,
              !.handlers = publish_copy(bus_handlers, channel),
              !.expected = { h \in Handlers : lastop[channel][h] = "subscribe" },
              !.barred = { h \in Handlers : lastop[channel][h] = "unsubscribe" }])
    /\ UNCHANGED <<graphVars, runVars, lastCall, factoryVars, nodeVars,
                   bus_handlers, lastop>>

\* The handler publish() p is awaiting returns
HandlerReturns(p) ==
    /\ pubs[p].pc = "awaiting"
    /\ PublishGoesOn(p, pubs[p])
    /\ UNCHANGED <<graphVars, runVars, lastCall, factoryVars, nodeVars,
                   bus_handlers, lastop>>

\* The handler publish() p is awaiting raises an Exception
HandlerRaises(p) ==
    /\ pubs[p].pc = "awaiting"
    /\ PublishGoesOn(p, on_handler_raise(pubs[p]))
    /\ UNCHANGED <<graphVars, runVars, lastCall, factoryVars, nodeVars,
                   bus_handlers, lastop>>

NextBus ==
    \/ \E channel \in Channels, handler \in Handlers : Subscribe(channel, handler)
    \/ \E channel \in Channels, handler \in Handlers : Unsubscribe(channel, handler)
    \/ \E p \in PubIds, channel \in Channels, event \in Events :
          Publish(p, channel, event)
    \/ \E p \in PubIds : HandlerReturns(p)
    \/ \E p \in PubIds : HandlerRaises(p)

(***************************************************************************)
(* The node registry                                                       *)
(***************************************************************************)
\* The type tags offered to register_node_type and create_node, the classes
\* registered and the keyword arguments passed to the constructor.
NodeTypes == {"t1", "t2"}

Classes == {"ClassA", "ClassB"}

Kwargs == { [node_id |-> id] : id \in {"A", "B"} }

MaxRegs == 3

\* No create_node call made yet.
NoCreated ==
    [outcome |-> "none", node_type |-> "none", cls |-> "none",
     kwargs |-> [node_id |-> "none"]]

\* Keeps the first class registered under a tag.
register_first_wins(reg, node_type, cls) ==
    IF node_type \in DOMAIN reg THEN reg ELSE MapSet(reg, node_type, cls)

\* _NODE_REGISTRY[node_type] = cls
register(reg, node_type, cls) == MapSet(reg, node_type, cls)

\* @register_node_type(node_type) applied to the class cls
RegisterNodeType(node_type, cls) ==
    /\ registry' = register(registry, node_type, cls)
    /\ registrations' = Append(registrations, [node_type |-> node_type, cls |-> cls])
    /\ UNCHANGED <<graphVars, runVars, lastCall, created, nodeVars, busVars>>

\* create_node(node_type, **kwargs): the ValueError "Unknown node type",
\* or the instance the registered class builds from kwargs
create_node(reg, node_type, kwargs) ==
    IF node_type \notin DOMAIN reg
    THEN [outcome |-> "UnknownNodeType", node_type |-> node_type,
          cls |-> "none", kwargs |-> [node_id |-> "none"]]
    ELSE [outcome |-> "ok", node_type |-> node_type,
          cls |-> reg[node_type], kwargs |-> kwargs]

CreateNode(node_type, kwargs) ==
    /\ created' = create_node(registry, node_type, kwargs)
    /\ UNCHANGED <<graphVars, runVars, lastCall, registry, registrations, nodeVars, busVars>>

NextFactory ==
    \/ /\ Len(registrations) < MaxRegs
       /\ \E node_type \in NodeTypes, cls \in Classes :
             RegisterNodeType(node_type, cls)
    \/ \E node_type \in NodeTypes, kwargs \in Kwargs :
          CreateNode(node_type, kwargs)

(***************************************************************************)
(* Specification of the graph structure alone                              *)
(***************************************************************************)
InitGraph ==
    /\ nodes = <<>>
    /\ connections = <<>>
    /\ lastCall = Call("none", "none", NoConn, "ok", <<>>)
    /\ execs = [e \in ExecIds |-> NoExec]
    /\ history = <<>>
    /\ heap = [caller |-> EmptyMap, own |-> [e \in ExecIds |-> EmptyMap]]
    /\ registry = EmptyMap
    /\ registrations = <<>>
    /\ created = NoCreated
    /\ validation = NoValidation
    /\ bus_handlers = EmptyMap
    /\ lastop = [c \in Channels |-> [h \in Handlers |-> "none"]]
    /\ pubs = [p \in PubIds |-> NoPub]

\* Every call is observed in lastCall.
NextGraph ==
    \/ \E node \in NodeObjs :
          /\ AddNode(node)
          /\ lastCall' = Call("add_node", node.node_id, NoConn, "ok", <<>>)
    \/ /\ Len(connections) < MaxConns
       /\ \E connection \in PlainConnection :
             /\ AddConnection(connection)
             /\ lastCall' = Call("add_connection", "none", connection,
                    add_connection_outcome(nodes, connections, connection), <<>>)
    \/ GetTopologicalOrder

SpecGraph == InitGraph /\ [][NextGraph]_vars

\* The same calls, observed, on nodes of one shape per id.
NextApi ==
    \/ \E node \in RunNodeObjs :
          /\ AddNode(node)
          /\ lastCall' = Call("add_node", node.node_id, NoConn, "ok", <<>>)
    \/ /\ Len(connections) < MaxConns
       /\ \E connection \in PlainConnection :
             /\ AddConnection(connection)
             /\ lastCall' = Call("add_connection", "none", connection,
                    add_connection_outcome(nodes, connections, connection), <<>>)
    \/ GetTopologicalOrder

SpecApi == InitGraph /\ [][NextApi]_vars

\* add_node with nodes of either shape, so that a call may replace a node
\* by a different one, and add_connection, both observed.
NextReplace ==
    \/ \E node \in NodeObjs :
          /\ AddNode(node)
          /\ lastCall' = Call("add_node", node.node_id, NoConn, "ok", <<>>)
    \/ /\ Len(connections) < MaxRunConns
       /\ \E connection \in PlainConnection :
             /\ AddConnection(connection)
             /\ lastCall' = Call("add_connection", "none", connection,
                    add_connection_outcome(nodes, connections, connection), <<>>)

SpecReplace == InitGraph /\ [][NextReplace]_vars

\* The event bus alone, from a new InMemoryEventBus.
SpecBus == InitGraph /\ [][NextBus]_vars

\* validate_inputs alone, on nodes of every declared inputs list.
SpecValidate == InitGraph /\ [][NextValidate]_vars

\* The registry alone, from the empty _NODE_REGISTRY of a fresh import.
SpecFactory == InitGraph /\ [][NextFactory]_vars

(***************************************************************************)
(* Specification of the graphs with connection indices, built through the  *)
(* API: nodes of either shape, overwritten or not                          *)
(***************************************************************************)
NextIndexed ==
    \/ /\ \E node \in NodeObjs : AddNode(node)
       /\ UNCHANGED lastCall
    \/ /\ Len(connections) < MaxRunConns
       /\ \E connection \in NodeConnection : AddConnection(connection)
       /\ UNCHANGED lastCall

SpecIndexed == InitGraph /\ [][NextIndexed]_vars

(***************************************************************************)
(* Specifications of the runtime over graphs built through the API         *)
(*                                                                         *)
(* The caller builds the graph, then runs it: the structure is read-only   *)
(* from the first execute() on.  What an execution did is read from its    *)
(* own record; lastCall is not kept here.  RunNext is the next-state       *)
(* relation for given input sets: the execute() calls made, the Node and   *)
(* NodeConnection objects offered, the clock readings, the initial_inputs  *)
(* arguments and the statuses nodes return.                                *)
(***************************************************************************)
NoneStarted == \A e \in ExecIds : execs[e].pc = "notstarted"

RunNext(calls, objs, conset, maxc, readings, inits, statuses) ==
    \/ /\ NoneStarted
       /\ \E node \in objs : AddNode(node)
       /\ UNCHANGED lastCall
    \/ /\ NoneStarted
       /\ Len(connections) < maxc
       /\ \E connection \in conset : AddConnection(connection)
       /\ UNCHANGED lastCall
    \/ \E e \in calls, now \in readings, initial_inputs \in inits :
          ExecuteStart(e, now, initial_inputs)
    \/ \E e \in calls :
          /\ execs[e].pc = "awaiting"
          /\ \E node_result \in NodeResults(e, AwaitedNode(e), statuses) :
                NodeReturns(e, node_result)
    \/ \E e \in calls : NodeRaises(e)

Init == InitGraph

\* One execute() call on any graph of up to three nodes.
Next ==
    RunNext({1}, RunNodeObjs, NodeConnection, MaxRunConns, {0},
            InitialInputs, ReturnedStatus)

Spec == Init /\ [][Next]_vars

(***************************************************************************)
(* The runtime over a connection list the caller also writes directly      *)
(***************************************************************************)
\* graph.connections.append(connection): the dataclass field is public, and
\* this bypasses add_connection's checks
DirectAppend(connection) ==
    /\ connections' = Append(connections, connection)
    /\ UNCHANGED <<nodes, runVars, lastCall, factoryVars, nodeVars, busVars>>

NextDirect ==
    \/ RunNext({1}, RunNodeObjs, PlainConnection, MaxRunConns, {0},
               InitialInputs, ReturnedStatus)
    \/ /\ NoneStarted
       /\ Len(connections) < MaxRunConns
       /\ \E connection \in PlainConnection : DirectAppend(connection)

SpecDirect == Init /\ [][NextDirect]_vars

(***************************************************************************)
(* Several execute() calls on one runtime, interleaved at the awaits       *)
(***************************************************************************)
PairNodeObjs == { node \in RunNodeObjs : node.node_id \in {"A", "B"} }

PairConnection ==
    { c \in PlainConnection : {c.from_node_id, c.to_node_id} \subseteq {"A", "B"} }

NextConcurrent ==
    RunNext(ExecIds, PairNodeObjs, PairConnection, MaxPairConns, 0..MaxClock,
            InitialInputs, ReturnedStatus)

SpecConcurrent == Init /\ [][NextConcurrent]_vars

(***************************************************************************)
(* One execute() call whose nodes write to the shared state, with and      *)
(* without a dict passed by the caller                                     *)
(***************************************************************************)
NextShared ==
    \/ RunNext({1}, RunNodeObjs, PlainConnection, MaxRunConns, {0},
               InitialInputs, {"completed"})
    \/ \E initial_inputs \in InitialInputs : ExecuteShared(1, 0, initial_inputs)
    \/ NodeWrites(1)

SpecShared == Init /\ [][NextShared]_vars

(***************************************************************************)
(* The execution history of one runtime under interleaved execute() calls, *)
(* on graphs that may also hold a directly appended cycle                  *)
(***************************************************************************)
NextHistory ==
    \/ RunNext(ExecIds, PairNodeObjs, PairConnection, MaxPairConns, {0},
               InitialInputs, ReturnedStatus)
    \/ /\ NoneStarted
       /\ Len(connections) < MaxPairConns
       /\ \E connection \in PairConnection : DirectAppend(connection)

SpecHistory == Init /\ [][NextHistory]_vars

(***************************************************************************)
(* Specification of one execute() call on two-node graphs whose            *)
(* connections carry any int as an index: negative, or beyond the lists    *)
(***************************************************************************)
SignedIndices == {-3, -1, 0, 2}

SignedConnection ==
    [from_node_id : {"A", "B"}, from_output_index : SignedIndices,
     to_node_id : {"A", "B"}, to_input_index : SignedIndices]

NextSigned ==
    RunNext({1}, PairNodeObjs, SignedConnection, MaxPairConns, {0},
            InitialInputs, ReturnedStatus)

SpecSigned == Init /\ [][NextSigned]_vars

(***************************************************************************)
(* Specification of one execute() call whose task may be cancelled while   *)
(* it awaits a node                                                        *)
(***************************************************************************)
NextCancel ==
    \/ RunNext({1}, RunNodeObjs, PlainConnection, MaxPairConns, {0},
               InitialInputs, ReturnedStatus)
    \/ \E is_exception \in BOOLEAN : Cancel(1, is_exception)

SpecCancel == Init /\ [][NextCancel]_vars

(***************************************************************************)
(* Specification of execute() calls whose nodes all come back: the node    *)
(* an execution awaits eventually returns or raises, and the event loop    *)
(* then resumes the execution                                              *)
(***************************************************************************)
NodeComesBack(e) ==
    \/ /\ execs[e].pc = "awaiting"
       /\ \E node_result \in NodeResults(e, AwaitedNode(e), ReturnedStatus) :
             NodeReturns(e, node_result)
    \/ NodeRaises(e)

NextLive ==
    RunNext({1}, RunNodeObjs, PlainConnection, MaxPairConns, {0},
            InitialInputs, ReturnedStatus)

SpecLive ==
    /\ Init
    /\ [][NextLive]_vars
    /\ \A e \in ExecIds : WF_vars(NodeComesBack(e))

(***************************************************************************)
(* Specification of the readers of the graph: one execute() call, with     *)
(* get_topological_order(), to_dict() and get_statistics() called at any   *)
(* moment, each leaving what it returned in lastCall                       *)
(***************************************************************************)
Reading(op, result) ==
    [op |-> op, node_id |-> "none", conn |-> NoConn, outcome |-> "ok",
     order |-> <<>>, result |-> result]

ToDict ==
    /\ lastCall' = Reading("to_dict", graph_to_dict(nodes, connections))
    /\ UNCHANGED <<graphVars, runVars, factoryVars, nodeVars, busVars>>

GetStatistics ==
    /\ lastCall' = Reading("get_statistics", get_statistics(history, execs))
    /\ UNCHANGED <<graphVars, runVars, factoryVars, nodeVars, busVars>>

NextReaders ==
    \/ RunNext({1}, RunNodeObjs, PlainConnection, MaxPairConns, {0},
               InitialInputs, ReturnedStatus)
    \/ GetTopologicalOrder
    \/ ToDict
    \/ GetStatistics

SpecReaders == Init /\ [][NextReaders]_vars

(***************************************************************************)
(* Specification of one execute() call whose nodes return any NodeStatus   *)
(***************************************************************************)
NextStatus ==
    RunNext({1}, RunNodeObjs, PlainConnection, MaxPairConns, {0},
            InitialInputs, NodeStatus)

SpecStatus == Init /\ [][NextStatus]_vars

(***************************************************************************)
(* Properties of the graph structure                                       *)
(***************************************************************************)
Edges(conns) == { <<c.from_node_id, c.to_node_id>> : c \in Range(conns) }

\* Transitive closure of an edge set over NodeIds (Warshall).
RECURSIVE TransitiveClosure(_, _)
TransitiveClosure(E, S) ==
    IF S = {} THEN E
    ELSE LET k == CHOOSE n \in S : TRUE
             R == TransitiveClosure(E, S \ {k})
         IN  R \cup { ab \in NodeIds \X NodeIds :
                        <<ab[1], k>> \in R /\ <<k, ab[2]>> \in R }

Acyclic(conns) ==
    \A n \in NodeIds : <<n, n>> \notin TransitiveClosure(Edges(conns), NodeIds)

\* Position of an id in a list (0 when absent).
PosIn(seq, id) ==
    IF \E i \in 1..Len(seq) : seq[i] = id
    THEN CHOOSE i \in 1..Len(seq) : seq[i] = id
    ELSE 0

IsPermutationOfNodes(order, ns) ==
    /\ Len(order) = Len(ns)
    /\ Range(order) = Range(NodeKeys(ns))

RespectsConnections(order, conns) ==
    \A c \in Range(conns) :
        /\ PosIn(order, c.from_node_id) > 0
        /\ PosIn(order, c.to_node_id) > 0
        /\ PosIn(order, c.from_node_id) < PosIn(order, c.to_node_id)

\* C1: on every graph built through add_node and add_connection,
\* get_topological_order returns (does not raise) a list holding every node id
\* exactly once, with u before v for every connection u -> v.
C1_TopologicalOrderValid ==
    lastCall.op = "get_topological_order" =>
        /\ lastCall.outcome = "ok"
        /\ IsPermutationOfNodes(lastCall.order, nodes)
        /\ RespectsConnections(lastCall.order, connections)

\* get_topological_order has returned on a three-node graph with a fan-in:
\* two connections into one node.
C1_Witness ==
    /\ lastCall.op = "get_topological_order"
    /\ Len(nodes) = 3
    /\ \E i, j \in 1..Len(connections) :
          /\ i # j
          /\ connections[i].to_node_id = connections[j].to_node_id
          /\ connections[i].from_node_id # connections[j].from_node_id

EndpointsOf(conns) ==
    [i \in 1..Len(conns) |-> <<conns[i].from_node_id, conns[i].to_node_id>>]

\* C2: an add_connection call either appends exactly the given connection at
\* the end of the list, or raises NodeNotFound/CycleDetected and leaves the
\* node map and the connection list as they were; with A->B, B->C present,
\* add_connection(C->A) raises CycleDetected and the list keeps its two
\* entries.
C2_AddConnectionAllOrNothing ==
    [][ lastCall'.op = "add_connection" =>
          /\ nodes' = nodes
          /\ \/ /\ lastCall'.outcome = "ok"
                /\ connections' = Append(connections, lastCall'.conn)
             \/ /\ lastCall'.outcome \in {"NodeNotFound", "CycleDetected"}
                /\ connections' = connections
          /\ ( /\ EndpointsOf(connections) = << <<"A", "B">>, <<"B", "C">> >>
               /\ lastCall'.conn.from_node_id = "C"
               /\ lastCall'.conn.to_node_id = "A" )
             => ( /\ lastCall'.outcome = "CycleDetected"
                  /\ Len(connections') = 2 )
      ]_vars

\* add_connection(C->A) has been rejected on the graph A->B, B->C.
C2_Witness ==
    /\ lastCall.op = "add_connection"
    /\ lastCall.outcome = "CycleDetected"
    /\ lastCall.conn.from_node_id = "C"
    /\ lastCall.conn.to_node_id = "A"
    /\ EndpointsOf(connections) = << <<"A", "B">>, <<"B", "C">> >>

\* C3: after any sequence of add_node and add_connection calls, accepted or
\* rejected, overwriting or not, the connection list has no cycle and no
\* self-loop.
C3_GraphAcyclic == Acyclic(connections)

\* A self-loop has just been rejected on a three-node graph that already
\* holds two connections.
C3_Witness ==
    /\ Len(connections) = 2
    /\ Len(nodes) = 3
    /\ lastCall.op = "add_connection"
    /\ lastCall.outcome = "CycleDetected"
    /\ lastCall.conn.from_node_id = lastCall.conn.to_node_id

(***************************************************************************)
(* Properties of one execution                                             *)
(***************************************************************************)
Started(e) == execs[e].pc # "notstarted"

Returned(e) == execs[e].pc = "returned"

\* The ids of the first k entries of a list.
Prefix(order, k) == { order[i] : i \in 1..k }

\* The nodes execute() has invoked, in invocation order.
Invoked(e) == [i \in 1..Len(execs[e].calls) |-> execs[e].calls[i].node_id]

\* C4: fail-fast.  If the node at position k of the order returned FAILED,
\* execute() has returned FAILED with failed_node_id that node, node_results
\* holds exactly the first k nodes of the order, and no node after position k
\* was invoked.
C4_FailFast ==
    \A e \in ExecIds :
        LET x == execs[e] IN
        \A k \in 1..Len(x.execution_order) :
            LET n == x.execution_order[k] IN
            ( /\ n \in DOMAIN x.node_results
              /\ x.node_results[n].status = "failed" )
            => /\ x.pc = "returned"
               /\ x.status = "failed"
               /\ x.failed_node_id = n
               /\ DOMAIN x.node_results = Prefix(x.execution_order, k)
               /\ Cardinality(DOMAIN x.node_results) = k
               /\ Invoked(e) = SubSeq(x.execution_order, 1, k)

\* The second node of a three-node order has failed.
C4_Witness ==
    \E e \in ExecIds :
        /\ Len(execs[e].execution_order) = 3
        /\ execs[e].failed_node_id = execs[e].execution_order[2]
        /\ execs[e].pc = "returned"

\* The connections, by position, that bind the declared input a connection at
\* position i binds (same target, same in-range input index).
SameInputBinders(i) ==
    { j \in 1..Len(connections) :
        /\ connections[j].to_node_id = connections[i].to_node_id
        /\ connections[j].to_input_index = connections[i].to_input_index }

\* C5: data flow.  For every connection from output index i of A to input
\* index j of B (both within the declared lists) that is the only one binding
\* that input: if A's recorded outputs hold A's i-th output name with value v,
\* the context inputs B's execute was called with bind B's j-th input name to v.
C5_DataFlow ==
    \A e \in ExecIds :
        \A k \in 1..Len(execs[e].calls) :
            \A i \in 1..Len(connections) :
                LET conn == connections[i]
                    call == execs[e].calls[k]
                    A == NodeAt(nodes, conn.from_node_id)
                    B == NodeAt(nodes, conn.to_node_id)
                    out_name == A.outputs[conn.from_output_index + 1]
                    in_name == B.inputs[conn.to_input_index + 1]
                    results == execs[e].node_results
                IN  ( /\ conn.to_node_id = call.node_id
                      /\ conn.from_output_index < Len(A.outputs)
                      /\ conn.to_input_index < Len(B.inputs)
                      /\ SameInputBinders(i) = {i}
                      /\ conn.from_node_id \in DOMAIN results
                      /\ out_name \in DOMAIN results[conn.from_node_id].outputs )
                    => /\ in_name \in DOMAIN call.inputs
                       /\ call.inputs[in_name] =
                            results[conn.from_node_id].outputs[out_name]

\* B was invoked with its second input bound to A's second output.
C5_Witness ==
    \E e \in ExecIds :
        \E k \in 1..Len(execs[e].calls) :
            LET call == execs[e].calls[k] IN
            /\ call.node_id = "B"
            /\ "q" \in DOMAIN call.inputs
            /\ call.inputs["q"] = Val(e, "A", "y")
            /\ Len(connections) = 2

\* C6: execute() never lets an exception out for a graph-shape problem or a
\* node failure; when the topological order cannot be computed it invokes no
\* node and returns FAILED with the error message.
C6_ShapeErrorsNormalized ==
    \A e \in ExecIds :
        LET x == execs[e] IN
        /\ x.pc # "raised"
        /\ ( Started(e) /\ ~get_topological_order(nodes, connections).ok )
           => /\ x.pc = "returned"
              /\ x.status = "failed"
              /\ x.error_message = "Graph contains a cycle"
              /\ x.calls = <<>>
              /\ x.node_results = EmptyMap

\* execute() has returned on a graph whose connection list holds a cycle.
C6_Witness ==
    \E e \in ExecIds :
        /\ Returned(e)
        /\ Len(nodes) = 3
        /\ ~Acyclic(connections)
        /\ execs[e].error_message = "Graph contains a cycle"

\* Every node of the order has a recorded result with a non-FAILED status.
AllNodesSucceeded(x) ==
    \A i \in 1..Len(x.execution_order) :
        /\ x.execution_order[i] \in DOMAIN x.node_results
        /\ x.node_results[x.execution_order[i]].status # "failed"

\* C7: running -> {completed | failed}.  The result is created RUNNING, its
\* status is assigned exactly once more, and a returned result is COMPLETED
\* or FAILED: COMPLETED exactly when every node of the order returned a
\* non-FAILED status and nothing raised.
C7_StatusMachine ==
    \A e \in ExecIds :
        LET x == execs[e] IN
        /\ x.pc = "notstarted" => x.assigned = <<>>
        /\ x.pc = "awaiting" => x.assigned = <<"running">> /\ x.status = "running"
        /\ x.pc = "returned" =>
              /\ Len(x.assigned) = 2
              /\ x.assigned[1] = "running"
              /\ x.status = x.assigned[2]
              /\ x.status \in {"completed", "failed"}
              /\ (x.status = "completed") <=>
                    (AllNodesSucceeded(x) /\ ~x.caught)

\* A three-node run has returned FAILED because the third node raised after
\* two nodes returned results.
C7_Witness ==
    \E e \in ExecIds :
        /\ Returned(e)
        /\ execs[e].status = "failed"
        /\ execs[e].caught
        /\ execs[e].failed_node_id = "none"
        /\ Len(execs[e].execution_order) = 3
        /\ execs[e].ended = 3
        /\ Cardinality(DOMAIN execs[e].node_results) = 2

\* The nodes with no outgoing connection.
TerminalNodes ==
    { n \in Range(NodeKeys(nodes)) :
        ~\E c \in Range(connections) : c.from_node_id = n }

\* C8: a COMPLETED result's final_outputs has exactly one entry per node with
\* no outgoing connection, holding the output map that node returned, and
\* none for a node with an outgoing connection; a FAILED result's
\* final_outputs is empty.
C8_FinalOutputs ==
    \A e \in ExecIds :
        LET x == execs[e] IN
        Returned(e) =>
            /\ x.status = "completed" =>
                  /\ DOMAIN x.final_outputs = TerminalNodes
                  /\ \A n \in TerminalNodes :
                        x.final_outputs[n] = x.node_results[n].outputs
            /\ x.status = "failed" => x.final_outputs = EmptyMap

\* A completed run of a three-node graph with two terminal nodes and one
\* node with an outgoing connection.
C8_Witness ==
    \E e \in ExecIds :
        /\ Returned(e)
        /\ execs[e].status = "completed"
        /\ Len(nodes) = 3
        /\ Cardinality(TerminalNodes) = 2
        /\ \E n \in TerminalNodes : DOMAIN execs[e].final_outputs[n] # {}

\* C9: any two execute() calls are allocated different execution ids, also
\* when both read the same clock value.
C9_ExecutionIdsUnique ==
    \A d, e \in ExecIds :
        (d # e /\ Started(d) /\ Started(e))
            => execs[d].execution_id # execs[e].execution_id

\* C10: within one execute() the nodes run one at a time in the computed
\* order: at most one invocation is in flight, the i-th invocation is the
\* node at position i, every earlier invocation has ended before the next
\* starts, and every upstream node of an invoked node has a recorded result.
C10_Sequential ==
    \A e \in ExecIds :
        LET x == execs[e] IN
        /\ Len(x.calls) - x.ended \in {0, 1}
        /\ (x.pc = "awaiting") <=> (Len(x.calls) - x.ended = 1)
        /\ Len(x.calls) <= Len(x.execution_order)
        /\ Invoked(e) = SubSeq(x.execution_order, 1, Len(x.calls))
        /\ \A k \in 1..Len(x.calls) :
              \A c \in Range(connections) :
                  c.to_node_id = x.calls[k].node_id =>
                      /\ \E j \in 1..(k - 1) : x.calls[j].node_id = c.from_node_id
                      /\ c.from_node_id \in DOMAIN x.node_results

\* The last node of a chain of three is in flight, the two before have
\* returned, and the chain runs against the insertion order.
C10_Witness ==
    \E e \in ExecIds :
        /\ execs[e].pc = "awaiting"
        /\ Len(execs[e].calls) = 3
        /\ execs[e].ended = 2
        /\ execs[e].execution_order # NodeKeys(nodes)
        /\ \E c, d \in Range(connections) :
              /\ c.to_node_id = d.from_node_id
              /\ d.to_node_id = execs[e].calls[3].node_id

(***************************************************************************)
(* Properties of the execution history                                     *)
(***************************************************************************)
\* The calls that have returned.
ReturnedCalls == { e \in ExecIds : Returned(e) }

C12_Statistics ==
    LET stats == get_statistics(history, execs)
        M == Cardinality(ReturnedCalls)
        S == Cardinality({ e \in ReturnedCalls : execs[e].status = "completed" })
    IN  /\ stats.total_executions = M
        /\ M = 0 => stats.success_rate = <<0, 1>>
        /\ M >= 1 =>
              /\ stats.success_rate[2] > 0
              /\ stats.success_rate[1] * M = S * stats.success_rate[2]

\* Two executions have finished, one COMPLETED and one FAILED: the rate is
\* one half.
C12_Witness ==
    /\ Len(history) = 2
    /\ get_statistics(history, execs).success_rate = <<1, 2>>
    /\ get_statistics(history, execs).successful_executions = 1

(***************************************************************************)
(* Further properties of the graph structure                               *)
(***************************************************************************)
\* C13: in every graph state reachable through add_node and add_connection,
\* every connection's from_output_index is a position in the from-node's
\* declared outputs and its to_input_index a position in the to-node's
\* declared inputs.
C13_IndicesInBounds ==
    \A c \in Range(connections) :
        /\ HasNode(nodes, c.from_node_id)
        /\ HasNode(nodes, c.to_node_id)
        /\ c.from_output_index \in 0..(Len(NodeAt(nodes, c.from_node_id).outputs) - 1)
        /\ c.to_input_index \in 0..(Len(NodeAt(nodes, c.to_node_id).inputs) - 1)

\* C14: in every graph state reachable through add_node and add_connection,
\* the from_node_id and the to_node_id of every connection in the list are
\* keys of the node map.
C14_EndpointsPresent ==
    \A i \in 1..Len(connections) :
        /\ HasNode(nodes, connections[i].from_node_id)
        /\ HasNode(nodes, connections[i].to_node_id)

\* A connection to a node that is not in the map has just been rejected on a
\* graph that already holds a connection.
C14_Witness ==
    /\ lastCall.op = "add_connection"
    /\ lastCall.outcome = "NodeNotFound"
    /\ HasNode(nodes, lastCall.conn.from_node_id)
    /\ ~HasNode(nodes, lastCall.conn.to_node_id)
    /\ Len(connections) = 1

(***************************************************************************)
(* Properties of input resolution                                          *)
(***************************************************************************)
\* Whether some connection of the list targets the node.
HasIncoming(node_id) ==
    \E c \in Range(connections) : c.to_node_id = node_id

\* Whether the binding of input name to value v can come from a connection
\* into node_id: name is the input declared at the connection's
\* to_input_index and v is recorded under the output declared at its
\* from_output_index in the upstream node's result.
ConnectionDerived(e, node_id, name, v) ==
    \E c \in Range(connections) :
        LET A == NodeAt(nodes, c.from_node_id)
            B == NodeAt(nodes, node_id)
            results == execs[e].node_results
        IN  /\ c.to_node_id = node_id
            /\ c.to_input_index < Len(B.inputs)
            /\ B.inputs[c.to_input_index + 1] = name
            /\ c.from_output_index < Len(A.outputs)
            /\ c.from_node_id \in DOMAIN results
            /\ A.outputs[c.from_output_index + 1] \in DOMAIN results[c.from_node_id].outputs
            /\ results[c.from_node_id].outputs[A.outputs[c.from_output_index + 1]] = v

\* C15: a node with no incoming connection is invoked with every key of the
\* caller's initial_inputs in its context inputs; a node with at least one
\* incoming connection is invoked with none of initial_inputs, only with
\* bindings derived from its connections.
C15_InitialInputs ==
    \A e \in ExecIds :
        \A k \in 1..Len(execs[e].calls) :
            LET call == execs[e].calls[k]
                initial_inputs == execs[e].initial_inputs
            IN  /\ ~HasIncoming(call.node_id) =>
                      \A key \in DOMAIN initial_inputs :
                          /\ key \in DOMAIN call.inputs
                          /\ call.inputs[key] = initial_inputs[key]
                /\ HasIncoming(call.node_id) =>
                      \A key \in DOMAIN call.inputs :
                          /\ call.inputs[key] \notin
                                { initial_inputs[n] : n \in DOMAIN initial_inputs }
                          /\ ConnectionDerived(e, call.node_id, key, call.inputs[key])

\* In one execution a source node was invoked with the caller's "p", and a
\* connected node with its own input "p" bound to the upstream output.
C15_Witness ==
    \E e \in ExecIds :
        \E j, k \in 1..Len(execs[e].calls) :
            /\ ~HasIncoming(execs[e].calls[j].node_id)
            /\ execs[e].calls[j].inputs = execs[e].initial_inputs
            /\ "p" \in DOMAIN execs[e].initial_inputs
            /\ HasIncoming(execs[e].calls[k].node_id)
            /\ "p" \in DOMAIN execs[e].calls[k].inputs
            /\ execs[e].calls[k].inputs["p"] # execs[e].initial_inputs["p"]

\* Whether every node before position k of the order of execution e has a
\* recorded result with a non-FAILED status.
AllBeforeSucceeded(e, k) ==
    \A i \in 1..(k - 1) :
        /\ execs[e].execution_order[i] \in DOMAIN execs[e].node_results
        /\ execs[e].node_results[execs[e].execution_order[i]].status # "failed"

\* Whether the upstream result of the connection at position i lacks the
\* output name the connection refers to.
UpstreamOutputMissing(e, i) ==
    LET c == connections[i]
        A == NodeAt(nodes, c.from_node_id)
        results == execs[e].node_results
    IN  /\ c.from_output_index < Len(A.outputs)
        /\ c.from_node_id \in DOMAIN results
        /\ results[c.from_node_id].status # "failed"
        /\ A.outputs[c.from_output_index + 1] \notin
                DOMAIN results[c.from_node_id].outputs

\* C16: a missing upstream output is not an error.  When the upstream
\* node's recorded output map lacks the output name a connection refers to,
\* the downstream node is still invoked once the nodes before it have
\* succeeded, with that input absent from its inputs (no other connection
\* binding it), and the except clause runs only for an exception raised by a
\* node.
C16_MissingOutputTolerated ==
    \A e \in ExecIds :
        LET x == execs[e] IN
        /\ x.caught => x.error_message = "node raised"
        /\ \A i \in 1..Len(connections) :
              LET c == connections[i]
                  B == NodeAt(nodes, c.to_node_id)
                  k == PosIn(x.execution_order, c.to_node_id)
              IN  ( /\ UpstreamOutputMissing(e, i)
                    /\ AllBeforeSucceeded(e, k) )
                  => /\ Len(x.calls) >= k
                     /\ x.calls[k].node_id = c.to_node_id
                     /\ ( /\ c.to_input_index < Len(B.inputs)
                          /\ SameInputBinders(i) = {i} )
                        => B.inputs[c.to_input_index + 1] \notin
                                DOMAIN x.calls[k].inputs

\* A run has COMPLETED in which a node returned no outputs and the node
\* downstream of it was invoked without the input the connection binds.
C16_Witness ==
    \E e \in ExecIds :
        \E i \in 1..Len(connections) :
            LET c == connections[i]
                k == PosIn(execs[e].execution_order, c.to_node_id)
            IN  /\ Returned(e)
                /\ execs[e].status = "completed"
                /\ UpstreamOutputMissing(e, i)
                /\ c.to_input_index < Len(NodeAt(nodes, c.to_node_id).inputs)
                /\ execs[e].calls[k].inputs = EmptyMap
                /\ Len(nodes) = 3

(***************************************************************************)
(* Properties of the shared state                                          *)
(***************************************************************************)
\* C17: all nodes of one execution receive the same shared_state map by
\* reference, the caller's own object when one is passed, so a write made by
\* the node at position i is visible through the reference of every node at
\* position j > i and, after execute() returns, in the caller's object.
C17_SharedState ==
    \A e \in ExecIds :
        LET x == execs[e] IN
        \A i \in 1..Len(x.calls) :
            LET n == x.calls[i].node_id IN
            /\ x.calls[i].shared_state = x.calls[1].shared_state
            /\ x.shared_state_arg = "caller" => x.calls[i].shared_state = "caller"
            /\ n \in x.writes =>
                  /\ \A j \in i..Len(x.calls) :
                        LET seen == Deref(e, x.calls[j].shared_state)
                        IN  /\ StateKey(n) \in DOMAIN seen
                            /\ seen[StateKey(n)] = Val(e, n, "state")
                  /\ (Returned(e) /\ x.shared_state_arg = "caller") =>
                        /\ StateKey(n) \in DOMAIN heap.caller
                        /\ heap.caller[StateKey(n)] = Val(e, n, "state")

\* execute() was given the caller's dict and has returned after three
\* nodes, of which the first and the last wrote: the caller's dict holds
\* both writes.
C17_Witness ==
    \E e \in ExecIds :
        /\ Returned(e)
        /\ execs[e].shared_state_arg = "caller"
        /\ Len(execs[e].calls) = 3
        /\ execs[e].writes = {execs[e].calls[1].node_id, execs[e].calls[3].node_id}
        /\ DOMAIN heap.caller = execs[e].writes

(***************************************************************************)
(* Properties of a raising node                                            *)
(***************************************************************************)
\* C18: if a node's execute raises an exception instead of returning a
\* result, execute() catches it and returns FAILED with error_message the
\* exception's message; node_results keeps exactly the results recorded for
\* the nodes that ran before it, and no later node is invoked.
C18_NodeRaiseCaught ==
    /\ [][ \A e \in ExecIds :
             NodeRaises(e) =>
                 /\ execs'[e].pc = "returned"
                 /\ execs'[e].status = "failed"
                 /\ execs'[e].error_message = "node raised"
                 /\ execs'[e].node_results = execs[e].node_results
                 /\ execs'[e].calls = execs[e].calls
         ]_vars
    /\ [] \A e \in ExecIds :
             LET x == execs[e] IN
             x.caught =>
                 /\ x.pc = "returned"
                 /\ x.status = "failed"
                 /\ x.ended = Len(x.calls)
                 /\ DOMAIN x.node_results = Prefix(x.execution_order, x.ended - 1)
                 /\ Invoked(e) = SubSeq(x.execution_order, 1, x.ended)

\* The second node of a three-node order raised after the first returned
\* its result; the third was not invoked.
C18_Witness ==
    \E e \in ExecIds :
        /\ Returned(e)
        /\ execs[e].caught
        /\ execs[e].error_message = "node raised"
        /\ Len(execs[e].execution_order) = 3
        /\ Len(execs[e].calls) = 2
        /\ DOMAIN execs[e].node_results = {execs[e].execution_order[1]}

(***************************************************************************)
(* Properties of serialization                                             *)
(***************************************************************************)
\* C19: round trip.  Serializing a graph with to_dict() and rebuilding a
\* graph from that structure (add_node for each listed node, then
\* add_connection for each listed connection, in listed order) yields the
\* same set of node ids and the same connection list, with no add_connection
\* rejected, and the rebuilt graph's topological order places u before v for
\* every connection u -> v.
C19_RoundTrip ==
    LET g == rebuild(graph_to_dict(nodes, connections))
        r == get_topological_order(g.nodes, g.connections)
    IN  /\ Range(NodeKeys(g.nodes)) = Range(NodeKeys(nodes))
        /\ Len(g.nodes) = Len(nodes)
        /\ g.connections = connections
        /\ g.rejected = 0
        /\ r.ok
        /\ RespectsConnections(r.order, connections)

\* A three-node graph with a full connection list, one of whose connections
\* has different output and input indices, and whose serialized form holds
\* as many connection entries.
C19_Witness ==
    /\ Len(nodes) = 3
    /\ Len(connections) = MaxRunConns
    /\ \E c \in Range(connections) : c.from_output_index # c.to_input_index
    /\ Len(graph_to_dict(nodes, connections).connections) = MaxRunConns

(***************************************************************************)
(* Properties of the node registry                                         *)
(***************************************************************************)
\* The positions of the register_node_type calls made for a tag.
RegisteredAt(node_type) ==
    { i \in 1..Len(registrations) : registrations[i].node_type = node_type }

\* The class of the last register_node_type call made for a tag.
LastRegistered(node_type) ==
    registrations[CHOOSE i \in RegisteredAt(node_type) :
                     \A j \in RegisteredAt(node_type) : j <= i].cls

\* C20: after any sequence of register_node_type calls, a later
\* registration for a tag replaces the earlier one without error, and
\* create_node(tag, ...) instantiates the constructor most recently
\* registered under tag; for a tag never registered it fails with
\* UnknownNodeType and leaves the registry unchanged.
C20_Registry ==
    /\ [] ( /\ DOMAIN registry = { t \in NodeTypes : RegisteredAt(t) # {} }
            /\ \A t \in DOMAIN registry : registry[t] = LastRegistered(t) )
    /\ [][ \A t \in NodeTypes, kwargs \in Kwargs :
             CreateNode(t, kwargs) =>
                 /\ registry' = registry
                 /\ RegisteredAt(t) # {} =>
                       /\ created'.outcome = "ok"
                       /\ created'.cls = LastRegistered(t)
                       /\ created'.kwargs = kwargs
                 /\ RegisteredAt(t) = {} =>
                       /\ created'.outcome = "UnknownNodeType"
                       /\ created'.cls = "none"
         ]_vars

\* A tag was registered twice with different classes and create_node built
\* an instance of the second; the other tag was never registered.
C20_Witness ==
    /\ Len(registrations) = 2
    /\ registrations[1].node_type = registrations[2].node_type
    /\ registrations[1].cls # registrations[2].cls
    /\ created.outcome = "ok"
    /\ created.cls = registrations[2].cls

(***************************************************************************)
(* Properties of Node.validate_inputs                                      *)
(***************************************************************************)
\* The positions of the declared inputs that are required, absent from the
\* supplied dict and without a default.
MissingAt(input_specs, inputs) ==
    { i \in 1..Len(input_specs) :
        /\ input_specs[i].required
        /\ input_specs[i].name \notin DOMAIN inputs
        /\ input_specs[i].default_value = "None" }

\* C21: validate_inputs(supplied) returns a MissingInput error exactly when
\* some declared input is required, absent from supplied and has no default,
\* and the error names the first such input in declaration order; otherwise
\* it returns success, in particular when the only absent inputs are
\* optional ones or required ones that have a default.
C21_ValidateInputs ==
    validation.called =>
        LET missing == MissingAt(validation.input_specs, validation.inputs)
            first == CHOOSE i \in missing : \A j \in missing : i <= j
        IN  /\ validation.result.ok <=> missing = {}
            /\ missing = {} => validation.result.error = <<"None">>
            /\ missing # {} =>
                  validation.result.error =
                      <<"Missing required input: ",
                        validation.input_specs[first].name>>

\* validate_inputs has named the second declared input as missing, the first
\* being required and absent too but having a default.
C21_Witness ==
    /\ validation.called
    /\ Len(validation.input_specs) = 2
    /\ validation.input_specs[1].required
    /\ validation.input_specs[1].default_value = "d"
    /\ validation.input_specs[1].name \notin DOMAIN validation.inputs
    /\ ~validation.result.ok
    /\ validation.result.error =
          <<"Missing required input: ", validation.input_specs[2].name>>

(***************************************************************************)
(* Properties of the in-memory event bus                                   *)
(***************************************************************************)
\* The handlers publish() p has invoked.
InvokedHandlers(p) ==
    { pubs[p].invoked[i].handler : i \in 1..Len(pubs[p].invoked) }

\* C22: when publish(channel, event) returns, every handler subscribed to
\* that channel at the time of the publish has been invoked exactly once
\* with that event, and no handler subscribed only to other channels has
\* been invoked.
C22_PublishDelivers ==
    \A p \in PubIds :
        LET x == pubs[p] IN
        /\ InvokedHandlers(p) \subseteq x.expected
        /\ \A i \in 1..Len(x.invoked) : x.invoked[i].event = x.event
        /\ \A i, j \in 1..Len(x.invoked) :
              x.invoked[i].handler = x.invoked[j].handler => i = j
        /\ x.pc = "returned" => InvokedHandlers(p) = x.expected

\* publish() to a channel with two subscribers has returned after invoking
\* both, while one of them is also subscribed to the other channel and the
\* other is not.
C22_Witness ==
    \E p \in PubIds :
        /\ pubs[p].pc = "returned"
        /\ pubs[p].channel = "c1"
        /\ Len(pubs[p].invoked) = 2
        /\ lastop["c2"]["h1"] = "subscribe"
        /\ lastop["c2"]["h2"] = "none"

\* Whether the handler is in the channel's set of self._handlers.
Subscribed(hs, channel, handler) == handler \in handlers_get(hs, channel)

\* C23: once unsubscribe(channel, handler) has returned, no event published
\* to that channel afterwards is delivered to that handler (until it
\* subscribes again), while the handler's subscriptions to other channels
\* and other handlers' subscriptions to that channel stay active.
C23_Unsubscribe ==
    /\ [] ( /\ \A p \in PubIds : InvokedHandlers(p) \cap pubs[p].barred = {}
            /\ \A c \in Channels, h \in Handlers :
                  lastop[c][h] = "subscribe" => Subscribed(bus_handlers, c, h) )
    /\ [][ \A c \in Channels, h \in Handlers :
             Unsubscribe(c, h) =>
                 /\ ~Subscribed(bus_handlers', c, h)
                 /\ \A c2 \in Channels, h2 \in Handlers :
                       <<c2, h2>> # <<c, h>> =>
                           ( Subscribed(bus_handlers', c2, h2)
                               <=> Subscribed(bus_handlers, c2, h2) )
         ]_vars

\* A publish to c1 made after h1 unsubscribed from it has returned: it
\* invoked h2, still subscribed to c1, and not h1, still subscribed to c2.
C23_Witness ==
    \E p \in PubIds :
        /\ pubs[p].pc = "returned"
        /\ pubs[p].channel = "c1"
        /\ pubs[p].barred = {"h1"}
        /\ InvokedHandlers(p) = {"h2"}
        /\ lastop["c1"]["h1"] = "unsubscribe"
        /\ Subscribed(bus_handlers, "c2", "h1")

\* C24: a handler that raises while handling an event does not prevent the
\* delivery of that event to the other handlers subscribed to the same
\* channel, does not make publish raise, and does not remove any
\* subscription.
C24_HandlerErrorIsolated ==
    /\ [] \A p \in PubIds :
             /\ pubs[p].pc # "raised"
             /\ pubs[p].raised \subseteq InvokedHandlers(p)
             /\ (pubs[p].pc = "returned" /\ pubs[p].raised # {}) =>
                    pubs[p].expected \ pubs[p].raised \subseteq InvokedHandlers(p)
    /\ [][ \A p \in PubIds :
             HandlerRaises(p) =>
                 /\ bus_handlers' = bus_handlers
                 /\ pubs'[p].pc \in {"awaiting", "returned"}
                 /\ pubs[p].handlers # {} => pubs'[p].pc = "awaiting"
         ]_vars

\* The first handler invoked raised, and publish() went on to invoke the
\* second and returned.
C24_Witness ==
    \E p \in PubIds :
        /\ pubs[p].pc = "returned"
        /\ Len(pubs[p].invoked) = 2
        /\ pubs[p].raised = {pubs[p].invoked[1].handler}
        /\ Cardinality(handlers_get(bus_handlers, pubs[p].channel)) = 2

(***************************************************************************)
(* Further properties of add_connection and get_topological_order          *)
(***************************************************************************)
\* Whether the connections hold a directed path from u to v.
HasPath(conns, u, v) == <<u, v>> \in TransitiveClosure(Edges(conns), NodeIds)

\* C25: acceptance rule of add_connection(u -> v) on a graph reached
\* through the API.  It fails with NodeNotFound iff u or v is not a key of
\* the node map; otherwise it fails with CycleDetected iff u = v or the
\* existing connections hold a directed path from v to u; otherwise it is
\* accepted.  So it never rejects an edge whose addition keeps the graph
\* acyclic, and it accepts a duplicate of an existing connection.
C25_AcceptanceRule ==
    [][ lastCall'.op = "add_connection" =>
          LET u == lastCall'.conn.from_node_id
              v == lastCall'.conn.to_node_id
              missing == ~HasNode(nodes, u) \/ ~HasNode(nodes, v)
              closes == u = v \/ HasPath(connections, v, u)
          IN  /\ lastCall'.outcome =
                    IF missing THEN "NodeNotFound"
                    ELSE IF closes THEN "CycleDetected"
                    ELSE "ok"
              /\ lastCall'.outcome = "CycleDetected" =>
                    ~Acyclic(Append(connections, lastCall'.conn))
              /\ lastCall'.conn \in Range(connections) =>
                    lastCall'.outcome = "ok"
      ]_vars

\* A connection into a node that already has an incoming connection from
\* another node has been accepted, and so has a duplicate of it.
C25_Witness ==
    /\ lastCall.op = "add_connection"
    /\ lastCall.outcome = "ok"
    /\ Len(connections) = 3
    /\ connections[2] = connections[3]
    /\ connections[1].to_node_id = connections[2].to_node_id
    /\ connections[1].from_node_id # connections[2].from_node_id

\* The nodes with no incoming connection, in node-map insertion order.
SourcesInOrder ==
    SelectSeq(NodeKeys(nodes),
              LAMBDA n : ~\E c \in Range(connections) : c.to_node_id = n)

\* The position in the connection list of the connection whose relaxation
\* brings the in-degree of v to zero under the order: the last connection
\* into v from the latest-emitted of its upstream nodes.
ReleasedBy(order, v) ==
    LET incoming == { i \in 1..Len(connections) : connections[i].to_node_id = v }
        latest == CHOOSE i \in incoming : \A j \in incoming :
                      PosIn(order, connections[j].from_node_id)
                          <= PosIn(order, connections[i].from_node_id)
        u == connections[latest].from_node_id
    IN  CHOOSE i \in incoming :
            /\ connections[i].from_node_id = u
            /\ \A j \in incoming : connections[j].from_node_id = u => j <= i

\* Whether v's in-degree reaches zero before w's under the order.
ReleasedBefore(order, v, w) ==
    LET i == ReleasedBy(order, v)
        j == ReleasedBy(order, w)
        pv == PosIn(order, connections[i].from_node_id)
        pw == PosIn(order, connections[j].from_node_id)
    IN  pv < pw \/ (pv = pw /\ i < j)

\* C26: get_topological_order() breaks ties by FIFO discovery order and by
\* nothing else: the nodes with no incoming connection come first, in
\* node-map insertion order, and every other node is emitted in the order in
\* which its in-degree reached zero; two calls on an unchanged graph return
\* the identical list.
C26_FifoOrder ==
    lastCall.op = "get_topological_order" =>
        LET order == lastCall.order
            k == Len(SourcesInOrder)
        IN  /\ SubSeq(order, 1, k) = SourcesInOrder
            /\ \A i, j \in (k + 1)..Len(order) :
                  i < j => ReleasedBefore(order, order[i], order[j])
            /\ get_topological_order(nodes, connections).order = order

\* get_topological_order has returned on a graph whose first-inserted node
\* is not a source, with two sources before it in the order.
C26_Witness ==
    /\ lastCall.op = "get_topological_order"
    /\ Len(lastCall.order) = 3
    /\ Len(SourcesInOrder) = 2
    /\ lastCall.order[3] = NodeKeys(nodes)[1]
    /\ Len(connections) = 2

\* C27: add_node(n) stores n under n.node_id, replacing without error any
\* node already stored under that id; the node count grows by one iff the id
\* was new, and every other node and the whole connection list, connections
\* that reference the replaced id included, are left unchanged.
C27_AddNodeFrame ==
    [][ \A node \in NodeObjs :
          AddNode(node) =>
            /\ HasNode(nodes', node.node_id)
            /\ NodeAt(nodes', node.node_id) = node
            /\ Cardinality({ i \in 1..Len(nodes') :
                               nodes'[i].node_id = node.node_id }) = 1
            /\ Len(nodes') = Len(nodes)
                    + (IF HasNode(nodes, node.node_id) THEN 0 ELSE 1)
            /\ \A i \in 1..Len(nodes) :
                  nodes[i].node_id # node.node_id => nodes'[i] = nodes[i]
            /\ connections' = connections
      ]_vars

\* add_node has just stored a node under an id that connections, accepted
\* earlier, reference: the call replaced a node.
C27_Witness ==
    /\ lastCall.op = "add_node"
    /\ HasNode(nodes, lastCall.node_id)
    /\ NodeAt(nodes, lastCall.node_id).outputs = <<"x">>
    /\ \E c \in Range(connections) : c.from_node_id = lastCall.node_id
    /\ \E c \in Range(connections) : c.to_node_id = lastCall.node_id

(***************************************************************************)
(* The walk of execute(): no validation, and FAILED alone stops it         *)
(***************************************************************************)
\* Whether the k-th call of execution e was made with a declared required
\* input with no default absent from its inputs.
MissingRequired(e, k) ==
    LET call == execs[e].calls[k]
    IN  ~validate_inputs(declared_inputs(NodeAt(nodes, call.node_id)),
                         call.inputs).ok

\* C28: the runtime never validates inputs before running a node.  A node
\* whose predecessors in the order all returned a status other than FAILED
\* is invoked, a declared required input with no default being absent from
\* its inputs or not; an execution fails only on a node that returned FAILED
\* or on a caught exception, and one in which every node returned another
\* status ends COMPLETED whatever inputs were absent.
C28_NoValidation ==
    \A e \in ExecIds :
        LET x == execs[e] IN
        /\ \A k \in 1..Len(x.execution_order) :
              AllBeforeSucceeded(e, k) =>
                  /\ Len(x.calls) >= k
                  /\ x.calls[k].node_id = x.execution_order[k]
        /\ x.status = "failed" =>
              \/ x.caught
              \/ /\ x.failed_node_id \in DOMAIN x.node_results
                 /\ x.node_results[x.failed_node_id].status = "failed"
        /\ ( /\ Returned(e)
             /\ AllNodesSucceeded(x)
             /\ \E k \in 1..Len(x.calls) : MissingRequired(e, k) )
           => x.status = "completed"

\* An execution over three nodes ended COMPLETED although the node fed by a
\* connection was invoked with every required input absent and a node fed
\* by initial_inputs with one absent.
C28_Witness ==
    \E e \in ExecIds :
        /\ Returned(e)
        /\ execs[e].status = "completed"
        /\ Len(execs[e].calls) = 3
        /\ \E k \in 1..3 :
              /\ MissingRequired(e, k)
              /\ HasIncoming(execs[e].calls[k].node_id)
              /\ execs[e].calls[k].inputs = EmptyMap
        /\ \E k \in 1..3 :
              /\ MissingRequired(e, k)
              /\ ~HasIncoming(execs[e].calls[k].node_id)

\* C29: only a node status of FAILED stops the walk.  When a node returns
\* any other status, its output map is recorded as an upstream source, the
\* next node of the order is executed, and after the last node the
\* execution ends COMPLETED.
C29_OnlyFailedStops ==
    [][ \A e \in ExecIds :
          execs[e].pc = "awaiting" =>
            \A node_result \in NodeResults(e, AwaitedNode(e), NodeStatus) :
              ( /\ NodeReturns(e, node_result)
                /\ node_result.status # "failed" )
              => LET x == execs[e]
                     y == execs'[e]
                     node_id == x.execution_order[x.pos]
                 IN  /\ y.node_results[node_id] = node_result
                     /\ y.node_outputs =
                            MapSet(x.node_outputs, node_id, node_result.outputs)
                     /\ x.pos < Len(x.execution_order) =>
                            /\ y.pc = "awaiting"
                            /\ y.pos = x.pos + 1
                            /\ Len(y.calls) = Len(x.calls) + 1
                            /\ y.calls[Len(y.calls)].node_id =
                                   x.execution_order[x.pos + 1]
                            /\ y.calls[Len(y.calls)].inputs =
                                   prepare_node_inputs(nodes, connections,
                                       x.execution_order[x.pos + 1],
                                       y.node_outputs, x.initial_inputs).inputs
                     /\ x.pos = Len(x.execution_order) =>
                            /\ y.pc = "returned"
                            /\ y.status = "completed"
      ]_vars

\* An execution over three nodes ended COMPLETED with no node having returned COMPLETED, and
\* a value of a SKIPPED node reached its successor.
C29_Witness ==
    \E e \in ExecIds :
        LET x == execs[e] IN
        /\ Returned(e)
        /\ x.status = "completed"
        /\ Len(x.execution_order) = 3
        /\ { x.node_results[n].status : n \in DOMAIN x.node_results }
              = {"skipped", "cancelled", "running"}
        /\ \E c \in Range(connections) :
              /\ x.node_results[c.from_node_id].status = "skipped"
              /\ x.calls[PosIn(x.execution_order, c.to_node_id)].inputs
                    # EmptyMap

\* A step of execute(): its start, or its resumption when the awaited node
\* returns or raises.
ExecuteStep ==
    \E e \in ExecIds :
        \/ \E now \in 0..MaxClock, initial_inputs \in InitialInputs :
              ExecuteStart(e, now, initial_inputs)
        \/ /\ execs[e].pc = "awaiting"
           /\ \E node_result \in NodeResults(e, AwaitedNode(e), NodeStatus) :
                 NodeReturns(e, node_result)
        \/ NodeRaises(e)

\* C30: the graph structure is changed only by add_node and add_connection:
\* execute(), whether it ends COMPLETED or FAILED, get_topological_order(),
\* to_dict() and get_statistics() leave the node map and the connection
\* list unchanged.
C30_ReadersFrame ==
    [][ /\ ( ExecuteStep \/ GetTopologicalOrder \/ ToDict \/ GetStatistics )
              => /\ nodes' = nodes
                 /\ connections' = connections
        /\ ( nodes' # nodes \/ connections' # connections )
              => \/ \E node \in RunNodeObjs : AddNode(node)
                 \/ \E connection \in PlainConnection :
                       AddConnection(connection)
      ]_vars

\* to_dict() has returned the three nodes and the connection of a graph on
\* which an execute() call ended FAILED after running a node.
C30_Witness ==
    /\ lastCall.op = "to_dict"
    /\ Len(lastCall.result.nodes) = 3
    /\ Len(lastCall.result.connections) = 1
    /\ Len(connections) = 1
    /\ Returned(1)
    /\ execs[1].status = "failed"
    /\ execs[1].failed_node_id # "none"

(***************************************************************************)
(* The aggregates of get_statistics                                        *)
(***************************************************************************)
\* C31: for every execution history, the empty one included,
\* get_statistics() reports all of its aggregates: total executions, the
\* count of executions with status COMPLETED, success rate, average
\* execution duration and total opportunities.
C31_AllAggregates ==
    DOMAIN get_statistics(history, execs) =
        {"total_executions", "successful_executions", "success_rate",
         "avg_execution_time_ms", "total_opportunities"}

\* C35: every result produced by execute() has an empty opportunities list
\* whatever the nodes return, so get_statistics() reports
\* total_opportunities = 0 for every non-empty history made only of
\* execute() results.
C35_NoOpportunities ==
    /\ \A e \in ExecIds : execs[e].opportunities = <<>>
    /\ Len(history) > 0 =>
          get_statistics(history, execs).total_opportunities = 0

\* Two executions are in the history, one COMPLETED and one FAILED, and
\* nodes of both returned outputs.
C35_Witness ==
    /\ Len(history) = 2
    /\ { execs[history[i]].status : i \in 1..2 } = {"completed", "failed"}
    /\ \A i \in 1..2 :
          \E n \in DOMAIN execs[history[i]].node_results :
              execs[history[i]].node_results[n].outputs # EmptyMap

(***************************************************************************)
(* Termination and the shape of the result                                 *)
(***************************************************************************)
\* C32: if every node's execute eventually returns or raises, every
\* execute() call on a graph built through the API eventually returns a
\* result, after invoking at most one execute per node of the graph.
C32_Terminates ==
    /\ \A e \in ExecIds : Started(e) ~> Returned(e)
    /\ [] \A e \in ExecIds :
            /\ Len(execs[e].calls) <= Len(nodes)
            /\ \A i, j \in 1..Len(execs[e].calls) :
                  execs[e].calls[i].node_id = execs[e].calls[j].node_id
                      => i = j
            /\ \A i \in 1..Len(execs[e].calls) :
                  HasNode(nodes, execs[e].calls[i].node_id)

\* A call has returned after invoking each of the three nodes of the graph.
C32_Witness ==
    /\ Len(nodes) = 3
    /\ Len(connections) = 1
    /\ Returned(1)
    /\ Len(execs[1].calls) = 3

\* C33: in one execution each node's execute is invoked at most once; at
\* every point the keys of node_results are a prefix of the topological
\* order; when the result is COMPLETED node_results has exactly one entry
\* for every node id of the graph, each holding the result that node itself
\* returned.
C33_NodeResults ==
    /\ [] \A e \in ExecIds :
            LET x == execs[e]
                k == Cardinality(DOMAIN x.node_results)
            IN  /\ \A i, j \in 1..Len(x.calls) :
                      x.calls[i].node_id = x.calls[j].node_id => i = j
                /\ k <= Len(x.execution_order)
                /\ DOMAIN x.node_results = Prefix(x.execution_order, k)
                /\ x.status = "completed" =>
                      DOMAIN x.node_results = Range(NodeKeys(nodes))
                /\ \A n \in DOMAIN x.node_results :
                      \A name \in DOMAIN x.node_results[n].outputs :
                          x.node_results[n].outputs[name] = Val(e, n, name)
    /\ [][ \A e \in ExecIds :
             execs[e].pc = "awaiting" =>
               \A node_result \in
                     NodeResults(e, AwaitedNode(e), ReturnedStatus) :
                 NodeReturns(e, node_result) =>
                     execs'[e].node_results =
                         MapSet(execs[e].node_results,
                                AwaitedNode(e).node_id, node_result)
         ]_vars

\* A COMPLETED result over three nodes holds three node results, two of
\* them with the outputs their nodes produced.
C33_Witness ==
    /\ Returned(1)
    /\ execs[1].status = "completed"
    /\ Cardinality(DOMAIN execs[1].node_results) = 3
    /\ Cardinality({ n \in DOMAIN execs[1].node_results :
                        execs[1].node_results[n].outputs # EmptyMap }) = 2

\* C34: in every result produced by execute(), failed_node_id is set iff
\* some node returned status FAILED; it then names the last node recorded in
\* node_results and that node's recorded status is FAILED.  A FAILED result
\* caused by a raised exception or by a topological-order failure has no
\* failed_node_id.
C34_FailedNodeId ==
    \A e \in ExecIds :
        Returned(e) =>
            LET x == execs[e]
                k == Cardinality(DOMAIN x.node_results)
                failed == { n \in DOMAIN x.node_results :
                              x.node_results[n].status = "failed" }
            IN  /\ x.failed_node_id # "none" <=> failed # {}
                /\ x.failed_node_id # "none" =>
                      /\ k >= 1
                      /\ x.failed_node_id = x.execution_order[k]
                      /\ failed = {x.failed_node_id}
                      /\ x.status = "failed"
                /\ x.caught =>
                      /\ x.status = "failed"
                      /\ x.failed_node_id = "none"

\* A result is FAILED with no failed_node_id: the second node raised after
\* the first had returned COMPLETED.
C34_Witness ==
    /\ Returned(1)
    /\ execs[1].caught
    /\ execs[1].error_message = "node raised"
    /\ Cardinality(DOMAIN execs[1].node_results) = 1
    /\ Len(execs[1].calls) = 2
    /\ execs[1].failed_node_id = "none"

(***************************************************************************)
(* Connections that bind the same input, or none                           *)
(***************************************************************************)
\* The connections that bind the declared input at index j of node_id with
\* an upstream output present among the results of execution e.
PresentBinders(e, node_id, j) ==
    { i \in 1..Len(connections) :
        LET c == connections[i]
            A == NodeAt(nodes, c.from_node_id)
        IN  /\ c.to_node_id = node_id
            /\ c.to_input_index = j
            /\ c.from_output_index < Len(A.outputs)
            /\ c.from_node_id \in DOMAIN execs[e].node_results
            /\ A.outputs[c.from_output_index + 1] \in
                   DOMAIN execs[e].node_results[c.from_node_id].outputs }

\* The value connection i carries in execution e.
Carried(e, i) ==
    LET c == connections[i]
        A == NodeAt(nodes, c.from_node_id)
    IN  execs[e].node_results[c.from_node_id]
            .outputs[A.outputs[c.from_output_index + 1]]

\* C36: when several connections bind the same declared input of a node and
\* more than one of their upstream outputs is present, the node's input
\* takes the value from the connection that comes last in the connection
\* list; an earlier connection's value is used only if every later one's
\* upstream output is missing.
C36_LastConnectionWins ==
    \A e \in ExecIds :
        \A k \in 1..Len(execs[e].calls) :
            LET call == execs[e].calls[k]
                B == NodeAt(nodes, call.node_id)
            IN  \A j \in 0..(Len(B.inputs) - 1) :
                    LET binders == PresentBinders(e, call.node_id, j)
                        last == CHOOSE i \in binders :
                                    \A i2 \in binders : i2 <= i
                    IN  binders # {} =>
                            /\ B.inputs[j + 1] \in DOMAIN call.inputs
                            /\ call.inputs[B.inputs[j + 1]] = Carried(e, last)

\* Two connections from different nodes bind the same input of a node, both
\* upstream outputs are present, and the node was invoked.
C36_Witness ==
    \E e \in ExecIds :
        \E k \in 1..Len(execs[e].calls) :
            LET call == execs[e].calls[k] IN
            /\ Cardinality(PresentBinders(e, call.node_id, 0)) = 2
            /\ connections[1].from_node_id # connections[2].from_node_id
            /\ Carried(e, 1) # Carried(e, 2)
            /\ call.inputs["p"] = Carried(e, 2)

\* Whether connection i names an index its origin's declared outputs or its
\* target's declared inputs do not have.
OutOfRange(i) ==
    LET c == connections[i] IN
    \/ ~list_has(NodeAt(nodes, c.from_node_id).outputs, c.from_output_index)
    \/ ~list_has(NodeAt(nodes, c.to_node_id).inputs, c.to_input_index)

\* C37: a connection whose from_output_index or to_input_index is out of
\* range of the declared lists is accepted by add_connection, binds no input
\* and raises no error at execution, yet still counts structurally: it
\* constrains the topological order, makes its target a non-source node (no
\* initial_inputs) and its origin a non-terminal node (its outputs are
\* absent from final_outputs).
C37_OutOfRangeInert ==
    \A e \in ExecIds :
        \A i \in 1..Len(connections) :
            LET c == connections[i]
                x == execs[e]
                into == { j \in 1..Len(connections) :
                            connections[j].to_node_id = c.to_node_id }
            IN  OutOfRange(i) =>
                  /\ x.caught => x.error_message = "node raised"
                  /\ x.execution_order # <<>> =>
                        PosIn(x.execution_order, c.from_node_id)
                            < PosIn(x.execution_order, c.to_node_id)
                  /\ \A k \in 1..Len(x.calls) :
                        ( /\ x.calls[k].node_id = c.to_node_id
                          /\ \A j \in into : OutOfRange(j) )
                        => x.calls[k].inputs = EmptyMap
                  /\ x.status = "completed" =>
                        c.from_node_id \notin DOMAIN x.final_outputs

(***************************************************************************)
(* Concurrent executions and the history                                   *)
(***************************************************************************)
\* The values of a map.
Values(d) == { d[k] : k \in DOMAIN d }

\* C38: concurrent executions on the same runtime, interleaved where a node
\* awaits, are isolated from each other: every input a node receives in
\* execution e was produced by an upstream node in e or comes from e's
\* initial_inputs, never from outputs recorded in another execution, and
\* e's node_results and final_outputs contain only its own node results.
C38_Isolation ==
    \A e \in ExecIds :
        LET x == execs[e] IN
        /\ \A k \in 1..Len(x.calls) :
              LET call == x.calls[k] IN
              \A name \in DOMAIN call.inputs :
                  \/ \E c \in Range(connections) :
                        /\ c.to_node_id = call.node_id
                        /\ c.from_node_id \in DOMAIN x.node_results
                        /\ call.inputs[name] \in
                               Values(x.node_results[c.from_node_id].outputs)
                  \/ /\ ~HasIncoming(call.node_id)
                     /\ name \in DOMAIN x.initial_inputs
                     /\ call.inputs[name] = x.initial_inputs[name]
        /\ \A n \in DOMAIN x.node_results :
              \A name \in DOMAIN x.node_results[n].outputs :
                  x.node_results[n].outputs[name] = Val(e, n, name)
        /\ \A n \in DOMAIN x.final_outputs :
              /\ n \in DOMAIN x.node_results
              /\ x.final_outputs[n] = x.node_results[n].outputs

\* Two executions are in flight at once, each awaiting the second node with
\* an input its own first node produced.
C38_Witness ==
    /\ \A e \in {1, 2} :
          /\ execs[e].pc = "awaiting"
          /\ Len(execs[e].calls) = 2
          /\ Values(execs[e].calls[2].inputs)
                = { Val(e, execs[e].calls[1].node_id, "x") }

\* C39: every entry of the execution history has overall status COMPLETED
\* or FAILED and a completion time set: no entry with status RUNNING is ever
\* recorded, even when an execute() call is abandoned while awaiting a node.
C39_HistoryTerminal ==
    \A i \in 1..Len(history) :
        /\ execs[history[i]].status \in {"completed", "failed"}
        /\ execs[history[i]].completed_at

====
